---- MODULE Spec2Model ----
(***************************************************************************)
(* Model of the UD Slurm add-ons Grid-Engine compatibility layer:          *)
(*   - the job_submit plugin (directive parser + policy pass, job_modify), *)
(*   - the gridengine_compat SPANK plugin (scratch directory lifecycle).   *)
(*                                                                         *)
(* C strings are TLA+ strings; a position is a 1-based index into the      *)
(* buffer and the terminating NUL is what At() returns past the end.       *)
(***************************************************************************)
EXTENDS Integers, Sequences, FiniteSets, TLC

VARIABLES
  is_cached, cached_gid, cached_gname,  \* statics of job_submit_getgrgid
  op,                                   \* last plugin entry point called
  req,                                  \* its arguments
  res,                                  \* its results
  fs,                                   \* filesystem: path -> node
  ctx,                                  \* SPANK context -> its state
  rmlog                                 \* remove() calls of the last job-exit stage

submitVars == <<is_cached, cached_gid, cached_gname, op, req, res>>
scratchVars == <<fs, ctx, rmlog>>
vars == <<is_cached, cached_gid, cached_gname, op, req, res, fs, ctx, rmlog>>

-----------------------------------------------------------------------------
(* C library: characters and strings                                       *)

NUL == ""
NULL == "(null)"

\* a local variable: v is computed once and named by the parameter of F
With(v, F(_)) == F(v)

At(s, i) == IF i >= 1 /\ i <= Len(s) THEN SubSeq(s, i, i) ELSE NUL

\* the rest of the C string starting at position i
From(s, i) == IF i <= Len(s) THEN SubSeq(s, i, Len(s)) ELSE ""

isspace(c) == c \in {" ", "\t", "\n", "\r", "\f"}

isdigit(c) == c \in {"0", "1", "2", "3", "4", "5", "6", "7", "8", "9"}

Digits == "0123456789abcdefghijklmnopqrstuvwxyz"
UpperCase == "ABCDEFGHIJKLMNOPQRSTUVWXYZ"
LowerCase == "abcdefghijklmnopqrstuvwxyz"

\* position of the character c in the alphabet, 0 if it is not in it
RECURSIVE IndexIn(_, _, _)
IndexIn(alphabet, c, k) ==
  IF k > Len(alphabet) THEN 0
  ELSE IF SubSeq(alphabet, k, k) = c THEN k
  ELSE IndexIn(alphabet, c, k + 1)

tolower(c) ==
  With(IndexIn(UpperCase, c, 1), LAMBDA k :
    IF c # NUL /\ k > 0 THEN SubSeq(LowerCase, k, k) ELSE c)

\* value of c as a digit of the given base, or -1
DigitVal(c, base) ==
  With(IndexIn(Digits, tolower(c), 1), LAMBDA k :
    IF c # NUL /\ k > 0 /\ k <= base THEN k - 1 ELSE -1)

RECURSIVE SkipSpace(_, _)
SkipSpace(s, i) == IF isspace(At(s, i)) THEN SkipSpace(s, i + 1) ELSE i

RECURSIVE ScanDigits(_, _, _, _)
ScanDigits(s, i, base, acc) ==
  With(DigitVal(At(s, i), base), LAMBDA d :
    IF d >= 0 THEN ScanDigits(s, i + 1, base, acc * base + d)
    ELSE [v |-> acc, e |-> i])

\* the "0x" prefix strtol accepts for base 0 or 16
HexPrefix(s, k, base) ==
  /\ base \in {0, 16}
  /\ At(s, k) = "0"
  /\ At(s, k + 1) \in {"x", "X"}
  /\ DigitVal(At(s, k + 2), 16) >= 0

\* the base strtol converts in
EffectiveBase(s, k, base, hex) ==
  IF base # 0 THEN base
  ELSE IF hex THEN 16
  ELSE IF At(s, k) = "0" THEN 8
  ELSE 10

\* strtol(s + i, &e, base): [v, e]; e = i when no conversion is performed
strtol(s, i, base) ==
  With(SkipSpace(s, i), LAMBDA j :
  With(IF At(s, j) \in {"-", "+"} THEN j + 1 ELSE j, LAMBDA k :
  With(HexPrefix(s, k, base), LAMBDA hex :
  With(IF hex THEN k + 2 ELSE k, LAMBDA d :
  With(ScanDigits(s, d, EffectiveBase(s, k, base, hex), 0), LAMBDA r :
    IF r.e = d
      THEN [v |-> 0, e |-> i]
      ELSE [v |-> IF At(s, j) = "-" THEN 0 - r.v ELSE r.v, e |-> r.e])))))

\* printf("%u") / printf("%ld") of a non-negative number
RECURSIVE FmtU(_)
FmtU(n) ==
  IF n < 10 THEN SubSeq(Digits, n + 1, n + 1)
  ELSE FmtU(n \div 10) \o SubSeq(Digits, (n % 10) + 1, (n % 10) + 1)

StartsWith(s, p) == Len(s) >= Len(p) /\ SubSeq(s, 1, Len(p)) = p

\* strncmp(s + i, p, strlen(p)) == 0
StartsAt(s, i, p) == i + Len(p) - 1 <= Len(s) /\ SubSeq(s, i, i + Len(p) - 1) = p

RECURSIVE ToLowerStr(_)
ToLowerStr(s) ==
  IF s = "" THEN "" ELSE tolower(SubSeq(s, 1, 1)) \o ToLowerStr(SubSeq(s, 2, Len(s)))

\* strncasecmp(s + i, p, strlen(p)) == 0
CaseStartsAt(s, i, p) ==
  i + Len(p) - 1 <= Len(s) /\ ToLowerStr(SubSeq(s, i, i + Len(p) - 1)) = ToLowerStr(p)

\* strcspn(s + i, reject)
RECURSIVE strcspn(_, _, _)
strcspn(s, i, reject) ==
  IF At(s, i) = NUL \/ At(s, i) \in reject THEN 0 ELSE 1 + strcspn(s, i + 1, reject)

\* strspn(s + i, accept)
RECURSIVE strspn(_, _, _)
strspn(s, i, accept) ==
  IF At(s, i) # NUL /\ At(s, i) \in accept THEN 1 + strspn(s, i + 1, accept) ELSE 0

\* position of the first occurrence of needle in s at or after i, 0 if none
RECURSIVE SearchFrom(_, _, _, _)
SearchFrom(s, i, needle, fold) ==
  IF i + Len(needle) - 1 > Len(s) THEN 0
  ELSE IF (IF fold THEN CaseStartsAt(s, i, needle) ELSE StartsAt(s, i, needle)) THEN i
  ELSE SearchFrom(s, i + 1, needle, fold)

-----------------------------------------------------------------------------
(* Slurm constants (slurm.h). TLC integers are 32-bit signed, so the 32-bit *)
(* and 64-bit "no value" marks are the largest-but-one value TLC can hold.  *)

NO_VAL   == 2147483647 - 1
NO_VAL16 == 65536 - 2
NO_VAL64 == [per_cpu |-> TRUE, mb |-> 2147483647 - 1]

U8(v) == v % 256
U16(v) == v % 65536

SLURM_SUCCESS == "SLURM_SUCCESS"
SLURM_ERROR   == "SLURM_ERROR"

NoErr == [text |-> "", line |-> 0]
Err(text, line) == [text |-> text, line |-> line]

-----------------------------------------------------------------------------
(* The job descriptor (struct job_descriptor), as slurm_init_job_desc_msg   *)
(* leaves it.                                                               *)

DefaultJobDesc ==
  [ script |-> NULL, environment |-> <<>>,
    std_out |-> NULL, std_err |-> NULL, std_in |-> NULL,
    name |-> NULL, comment |-> NULL,
    mail_type |-> {}, mail_user |-> NULL,
    partition |-> NULL, reservation |-> NULL, qos |-> NULL, account |-> NULL,
    tres_per_node |-> NULL,
    pn_min_memory |-> NO_VAL64,
    time_limit |-> NO_VAL, time_min |-> NO_VAL,
    shared |-> NO_VAL16,
    num_tasks |-> NO_VAL, cpus_per_task |-> NO_VAL16,
    min_cpus |-> NO_VAL, max_cpus |-> NO_VAL, pn_min_cpus |-> NO_VAL16,
    sockets_per_node |-> NO_VAL16,
    bitflags |-> {},
    group_id |-> 0 ]

\* env_array_append_fmt(&environment, name, "%u", value): appends "name=value"
\* unless a variable of that name is already in the array (then it returns 0)
env_array_append_fmt(env, name, value) ==
  IF \E k \in 1..Len(env) : StartsWith(env[k], name \o "=")
    THEN [ok |-> FALSE, env |-> env]
    ELSE [ok |-> TRUE, env |-> Append(env, name \o "=" \o FmtU(value))]

\* state of one run of job_submit_sge_parser
ParserState(jd) ==
  [ jd |-> jd,
    should_join_stdout_stderr |-> TRUE,
    is_set_stderr |-> jd.std_err # NULL,
    rc |-> SLURM_SUCCESS,
    err |-> NoErr ]

FailNoLine(st, text, line) == [st EXCEPT !.rc = SLURM_ERROR, !.err = Err(text, 0)]

Fail(st, text, line) == [st EXCEPT !.rc = SLURM_ERROR, !.err = Err(text, line)]

\* skip whitespace up to the end of the line
RECURSIVE SkipBlank(_, _)
SkipBlank(s, i) ==
  IF At(s, i) # NUL /\ At(s, i) # "\n" /\ isspace(At(s, i)) THEN SkipBlank(s, i + 1) ELSE i

\* skip to the next whitespace, the end of the line or the end of the string
RECURSIVE SkipWord(_, _)
SkipWord(s, i) ==
  IF At(s, i) # NUL /\ At(s, i) # "\n" /\ ~isspace(At(s, i)) THEN SkipWord(s, i + 1) ELSE i

\* one env_array_append_fmt of the -pe export: the state with the variable
\* appended, or the failed state
PeExport(st, name, value) ==
  IF st.rc # SLURM_SUCCESS THEN st
  ELSE With(env_array_append_fmt(st.jd.environment, name, value), LAMBDA a :
         IF a.ok THEN [st EXCEPT !.jd.environment = a.env]
         ELSE Fail(st, "unable to export " \o name \o " to job environment", 0))

\* the three variables a successful -pe appends to the environment
PeExportEnv(st) ==
  PeExport(PeExport(PeExport(st, "SLURM_NTASKS", st.jd.num_tasks),
                    "SLURM_NPROCS", st.jd.num_tasks),
           "SLURM_CPUS_PER_TASK", st.jd.num_tasks)

\* set the task count and the cpus per task from the pe name and the range
PeSetCounts(st, pe_name, n, line_no) ==
  IF pe_name = "threads"
    THEN PeExportEnv([st EXCEPT !.jd.num_tasks = 1,
                                !.jd.cpus_per_task = U16(n),
                                !.jd.min_cpus = U16(n),
                                !.jd.pn_min_cpus = U16(n),
                                !.jd.max_cpus = NO_VAL])
  ELSE IF pe_name \in {"mpi", "generic-mpi"}
    THEN PeExportEnv([st EXCEPT !.jd.num_tasks = n,
                                !.jd.cpus_per_task = 1,
                                !.jd.min_cpus = n,
                                !.jd.pn_min_cpus = U16(n),
                                !.jd.max_cpus = NO_VAL])
  ELSE Fail(st, "invalid pe name", line_no)

PeCheckRange(st, pe_name, is_range, cpu_range, line_no) ==
  IF cpu_range[1] <= cpu_range[2]
    THEN PeSetCounts(st, pe_name, IF is_range THEN cpu_range[2] ELSE cpu_range[1], line_no)
    ELSE Fail(st, "slot minimum > maximum", line_no)

\* the slot range of a -pe directive: [ok, is_range, cpu_range, text]; s is
\* the position of the first digit, open says that a '-' preceded it
PeRange(buf, s, open) ==
  With(strtol(buf, s, 10), LAMBDA n1 :
    IF ~(n1.v # 0 /\ n1.e > s)
      THEN [ok |-> FALSE, text |-> "invalid slot count"]
    ELSE IF ~(n1.v > 0 /\ n1.v <= NO_VAL)
      THEN [ok |-> FALSE, text |-> "invalid slot count (v)"]
    ELSE IF open
      THEN [ok |-> TRUE, is_range |-> TRUE, cpu_range |-> <<1, n1.v>>]
    ELSE IF At(buf, n1.e) # "-"
      THEN [ok |-> TRUE, is_range |-> FALSE, cpu_range |-> <<n1.v, NO_VAL>>]
    ELSE IF ~isdigit(At(buf, n1.e + 1))
      THEN [ok |-> FALSE, text |-> "invalid slot count"]
    ELSE With(strtol(buf, n1.e + 1, 10), LAMBDA n2 :
      IF ~(n2.v # 0 /\ n2.e > n1.e + 1)
        THEN [ok |-> FALSE, text |-> "invalid slot count"]
      ELSE IF ~(n2.v > 0 /\ n2.v <= NO_VAL)
        THEN [ok |-> FALSE, text |-> "invalid slot count (v)"]
      ELSE [ok |-> TRUE, is_range |-> TRUE, cpu_range |-> <<n1.v, n2.v>>]))

\* -pe <name> #{-#}; s0 is the position after "pe"
DirectivePe(st, buf, s0, line_no, has_cpu_counts) ==
  IF has_cpu_counts THEN st
  ELSE
    With(SkipBlank(buf, s0), LAMBDA name_s :
    With(SkipWord(buf, name_s), LAMBDA name_e :
    With(SkipBlank(buf, name_e), LAMBDA s1 :
    With(IF At(buf, s1) = "-" THEN s1 + 1 ELSE s1, LAMBDA s :
      IF ~isdigit(At(buf, s)) THEN st
      ELSE With(PeRange(buf, s, At(buf, s1) = "-"), LAMBDA r :
        IF ~r.ok THEN Fail(st, r.text, line_no)
        ELSE PeCheckRange(st, SubSeq(buf, name_s, name_e - 1),
                          r.is_range, r.cpu_range, line_no))))))

\* -m b|e|a|s|n,...: the mail modes named by the word at s, or "invalid"
RECURSIVE MailModes(_, _, _)
MailModes(buf, s, modes) ==
  With(At(buf, s), LAMBDA c :
    IF c = NUL \/ c = "\n" \/ isspace(c) THEN modes
    ELSE IF c = "b" THEN MailModes(buf, s + 1, modes \cup {"MAIL_JOB_BEGIN"})
    ELSE IF c = "e" THEN MailModes(buf, s + 1, modes \cup {"MAIL_JOB_END"})
    ELSE IF c = "a" THEN MailModes(buf, s + 1, modes \cup {"MAIL_JOB_FAIL"})
    ELSE IF c = "s" THEN MailModes(buf, s + 1, modes \cup {"MAIL_JOB_REQUEUE"})
    ELSE IF c = "n" THEN MailModes(buf, s + 1, {})
    ELSE IF c = "," THEN MailModes(buf, s + 1, modes)
    ELSE {"invalid"})

DirectiveMail(st, buf, s0, line_no) ==
  IF st.jd.mail_type # {} THEN st
  ELSE With(MailModes(buf, SkipBlank(buf, s0), {}), LAMBDA modes :
         IF modes = {"invalid"} THEN Fail(st, "invalid mail option", line_no)
         ELSE [st EXCEPT !.jd.mail_type = modes])

\* -M <address>
DirectiveMailUser(st, buf, s0) ==
  IF st.jd.mail_user # NULL THEN st
  ELSE With(SkipBlank(buf, s0), LAMBDA s :
       With(strcspn(buf, s, {"\n", "\r", "\t", " "}), LAMBDA addr_len :
         IF addr_len > 0
           THEN [st EXCEPT !.jd.mail_user = SubSeq(buf, s, s + addr_len - 1)]
           ELSE st))

\* -N <name>
DirectiveIgnored(st, buf, s0) == st

DirectiveName(st, buf, s0) ==
  With(SkipBlank(buf, s0), LAMBDA s :
  With(strcspn(buf, s, {"\n", "\t", "\r", "/", ":", "@", "\\", "*", "?"}), LAMBDA name_len :
    IF name_len = 0 THEN st
    ELSE IF st.jd.name = NULL \/ st.jd.name = ""
      THEN [st EXCEPT !.jd.name = SubSeq(buf, s, s + name_len - 1)]
    ELSE IF st.jd.comment = NULL \/ st.jd.comment = ""
      THEN [st EXCEPT !.jd.comment = SubSeq(buf, s, s + name_len - 1)]
    ELSE st))

\* replace every occurrence of tok in path by rep (one at a time, leftmost first)
RECURSIVE ReplaceToken(_, _, _)
ReplaceToken(path, tok, rep) ==
  With(SearchFrom(path, 1, tok, FALSE), LAMBDA k :
    IF k = 0 THEN path
    ELSE ReplaceToken(SubSeq(path, 1, k - 1) \o rep \o From(path, k + Len(tok)), tok, rep))

job_submit_sge_path_pseudo_variables == <<"$USER", "$JOB_ID", "$JOB_NAME", "$HOSTNAME", "$TASK_ID">>
job_submit_slurm_path_pseudo_variables == <<"%u", "%A", "%x", "%N", "%a">>

RECURSIVE SubstituteTokens(_, _)
SubstituteTokens(path, i) ==
  IF i > Len(job_submit_sge_path_pseudo_variables) THEN path
  ELSE SubstituteTokens(ReplaceToken(path, job_submit_sge_path_pseudo_variables[i],
                                     job_submit_slurm_path_pseudo_variables[i]), i + 1)

\* end of the path element starting at e: [e, host] where host says that a
\* host-qualifying colon was met
RECURSIVE PathElementEnd(_, _, _, _)
PathElementEnd(buf, e, has_leading_colon, host) ==
  With(At(buf, e), LAMBDA c :
    IF c = NUL \/ c = "\n" \/ c = "," THEN [e |-> e, host |-> host]
    ELSE IF ~has_leading_colon /\ c = ":" THEN PathElementEnd(buf, e + 1, TRUE, TRUE)
    ELSE PathElementEnd(buf, e + 1, has_leading_colon, host))

\* job_submit_sge_parse_file_path: the path, or NULL when every element of
\* the list is host-specific
RECURSIVE job_submit_sge_parse_file_path(_, _)
job_submit_sge_parse_file_path(buf, s) ==
  With(PathElementEnd(buf, s, At(buf, s) = ":", FALSE), LAMBDA end :
    IF ~end.host
      THEN SubstituteTokens(SubSeq(buf, IF At(buf, s) = ":" THEN s + 1 ELSE s, end.e - 1), 1)
    ELSE IF At(buf, end.e) = "," THEN job_submit_sge_parse_file_path(buf, end.e + 1)
    ELSE NULL)

\* -{o|e|i} <path>
DirectiveStdio(st, buf, s0, variant) ==
  With(job_submit_sge_parse_file_path(buf, SkipBlank(buf, s0)), LAMBDA path :
    IF path = NULL THEN st
    ELSE IF variant = "o" THEN [st EXCEPT !.jd.std_out = path]
    ELSE IF variant = "e" THEN [st EXCEPT !.jd.std_err = path, !.is_set_stderr = TRUE]
    ELSE [st EXCEPT !.jd.std_in = path])

\* -j y[es]|n[o]
DirectiveJoin(st, buf, s0, line_no) ==
  With(SkipBlank(buf, s0), LAMBDA s :
    IF At(buf, s) = "y"
      THEN IF ~isspace(At(buf, s + 1)) /\
              (At(buf, s + 1) # "e" \/ At(buf, s + 2) # "s" \/ ~isspace(At(buf, s + 3)))
             THEN Fail(st, "invalid -j argument", line_no)
             ELSE [st EXCEPT !.should_join_stdout_stderr = TRUE]
    ELSE IF At(buf, s) = "n"
      THEN IF ~isspace(At(buf, s + 1)) /\
              (At(buf, s + 1) # "o" \/ ~isspace(At(buf, s + 2)))
             THEN Fail(st, "invalid -j argument", line_no)
             ELSE [st EXCEPT !.should_join_stdout_stderr = FALSE]
    ELSE Fail(st, "invalid -j argument", line_no))

\* skip the @host part of a queue name
RECURSIVE SkipHost(_, _)
SkipHost(buf, s) ==
  IF At(buf, s) # NUL /\ ~isspace(At(buf, s)) /\ At(buf, s) # "," THEN SkipHost(buf, s + 1) ELSE s

\* the partition list with the queue name of qname_len characters at s added
AddQueueName(partition_list, buf, s, qname_len) ==
  IF qname_len = 0 THEN partition_list
  ELSE IF partition_list = NULL THEN SubSeq(buf, s, s + qname_len - 1)
  ELSE partition_list \o "," \o SubSeq(buf, s, s + qname_len - 1)

\* the queue names of a -q list, joined by commas (NULL when there is none)
RECURSIVE QueueNames(_, _, _)
QueueNames(buf, s, partition_list) ==
  IF At(buf, s) = NUL \/ At(buf, s) = "\n" THEN partition_list
  ELSE With(strcspn(buf, s, {"\n", "\t", "\r", "@", ",", " "}), LAMBDA qname_len :
       With(IF At(buf, s + qname_len) = "@" THEN SkipHost(buf, s + qname_len + 1)
            ELSE s + qname_len, LAMBDA s2 :
         QueueNames(buf, s2 + strspn(buf, s2, {"\t", "\r", ",", " "}),
                    AddQueueName(partition_list, buf, s, qname_len))))

\* -q <wc_queue_list>
DirectiveQueue(st, buf, s0) ==
  IF st.jd.partition # NULL /\ st.jd.partition # "" THEN st
  ELSE With(QueueNames(buf, SkipBlank(buf, s0), NULL), LAMBDA partition_list :
         IF partition_list # NULL THEN [st EXCEPT !.jd.partition = partition_list] ELSE st)

-----------------------------------------------------------------------------
(* Typed value converters                                                  *)

UDHPC_BASE_GID == 500
UDHPC_MIN_MEM_MB == 1024

\* A byte count too wide for TLC's integers is kept as [hi, lo] with the
\* value hi * 2^20 + lo, 0 <= lo < 2^20.
MiB == 1048576

Wide(v) == [hi |-> v \div MiB, lo |-> v % MiB]

WideMul(w, k) == [hi |-> w.hi * k + ((w.lo * k) \div MiB), lo |-> (w.lo * k) % MiB]

RECURSIVE WideMulN(_, _, _)
WideMulN(w, k, n) == IF n = 0 THEN w ELSE WideMulN(WideMul(w, k), k, n - 1)

\* the byte count v scaled by the unit character
ScaleByUnit(v, unit) ==
  IF unit = "G" THEN WideMulN(Wide(v), 1024, 3)
  ELSE IF unit = "M" THEN WideMulN(Wide(v), 1024, 2)
  ELSE IF unit = "K" THEN WideMulN(Wide(v), 1024, 1)
  ELSE IF unit = "g" THEN WideMulN(Wide(v), 1000, 3)
  ELSE IF unit = "m" THEN WideMulN(Wide(v), 1000, 2)
  ELSE IF unit = "k" THEN WideMulN(Wide(v), 1000, 1)
  ELSE Wide(v)

\* bytes to whole MiB, rounded up, raised to the minimum when positive
ToMegabytes(w) ==
  With(w.hi + (IF w.lo # 0 THEN 1 ELSE 0), LAMBDA mib :
    IF mib > 0 /\ mib < UDHPC_MIN_MEM_MB THEN UDHPC_MIN_MEM_MB ELSE mib)

\* job_submit_sge_parse_memory on the l characters S: [ok, megabytes]
job_submit_sge_parse_memory(S) ==
  With(strtol(S, 1, 0), LAMBDA n :
    IF Len(S) > 0 /\ n.v >= 0 /\ n.e > 1
      THEN [ok |-> TRUE, megabytes |-> ToMegabytes(ScaleByUnit(n.v, At(S, n.e)))]
      ELSE [ok |-> FALSE, megabytes |-> 0])

\* seconds to whole minutes, rounded up; negative is an error
ToMinutes(seconds) ==
  IF seconds >= 0
    THEN [ok |-> TRUE, minutes |-> (seconds \div 60) + (IF seconds % 60 # 0 THEN 1 ELSE 0)]
    ELSE [ok |-> FALSE, minutes |-> 0]

\* the value strtol converted, 0 when it converted nothing at position s
Converted(n, s) == IF n.e > s THEN n.v ELSE 0

\* job_submit_sge_parse_time on the l characters S: [ok, minutes]
job_submit_sge_parse_time(S) ==
  IF Len(S) = 0 THEN [ok |-> FALSE, minutes |-> 0]
  ELSE With(strtol(S, 1, 0), LAMBDA n0 :
    IF At(S, n0.e) # ":" THEN ToMinutes(Converted(n0, 1))
    ELSE With(strtol(S, n0.e + 1, 0), LAMBDA n1 :
      IF At(S, n1.e) # ":" THEN [ok |-> FALSE, minutes |-> 0]
      ELSE With(strtol(S, n1.e + 1, 0), LAMBDA n2 :
        ToMinutes(Converted(n2, n1.e + 1)
                  + 60 * (Converted(n1, n0.e + 1) + 60 * Converted(n0, 1))))))

kSGEBooleanFalse == "kSGEBooleanFalse"
kSGEBooleanTrue  == "kSGEBooleanTrue"

\* job_submit_sge_parse_bool on the l characters S: [ok, value]
job_submit_sge_parse_bool(S) ==
  IF ToLowerStr(S) = "true" \/ S = "1" THEN [ok |-> TRUE, value |-> kSGEBooleanTrue]
  ELSE IF ToLowerStr(S) = "false" \/ S = "0" THEN [ok |-> TRUE, value |-> kSGEBooleanFalse]
  ELSE [ok |-> FALSE, value |-> kSGEBooleanFalse]

\* xstrncasecmp(s, d, l) == 0 for a name s of l characters
job_submit_resource_name_equal(name, d) ==
  Len(name) <= Len(d) /\ ToLowerStr(name) = ToLowerStr(SubSeq(d, 1, Len(name)))

job_submit_resource_name_in_set(name, set) ==
  \E d \in set : job_submit_resource_name_equal(name, d)

-----------------------------------------------------------------------------
(* -l <complex>=<value>{,<complex>=<value>{,..}}                             *)

\* end of a resource name: the next '=', end of line or end of string
RECURSIVE NameEnd(_, _)
NameEnd(buf, re) ==
  IF At(buf, re) # NUL /\ At(buf, re) # "\n" /\ At(buf, re) # "=" THEN NameEnd(buf, re + 1) ELSE re

\* the terminating delimiter of a value: first unescaped delim, or end of line
RECURSIVE ValueEnd(_, _, _, _)
ValueEnd(buf, ve, delim, pc) ==
  IF At(buf, ve) = NUL \/ At(buf, ve) = "\n" THEN ve
  ELSE IF At(buf, ve) = delim /\ pc # "\\" THEN ve
  ELSE ValueEnd(buf, ve + 1, delim, At(buf, ve))

ResourceMemory(st, value, line_no) ==
  With(job_submit_sge_parse_memory(value), LAMBDA m :
    IF ~m.ok THEN Fail(st, "invalid memory specification for m_mem_free resource", line_no)
    ELSE IF st.jd.pn_min_memory = NO_VAL64
      THEN [st EXCEPT !.jd.pn_min_memory = [per_cpu |-> TRUE, mb |-> m.megabytes]]
    ELSE st)

ResourceTime(st, value, line_no) ==
  With(job_submit_sge_parse_time(value), LAMBDA m :
    IF ~m.ok THEN Fail(st, "invalid time specification for h_rt resource", line_no)
    ELSE IF st.jd.time_limit = NO_VAL
      THEN [st EXCEPT !.jd.time_limit = m.minutes]
    ELSE st)

ResourceExclusive(st, value, line_no) ==
  With(job_submit_sge_parse_bool(value), LAMBDA b :
    IF ~b.ok THEN Fail(st, "invalid specification for exclusive resource", line_no)
    ELSE IF st.jd.shared = NO_VAL16
      THEN [st EXCEPT !.jd.shared = IF b.value = kSGEBooleanTrue THEN 0 ELSE 1]
    ELSE st)

\* react to one resource=value
ResourceClause(st, name, value, line_no) ==
  IF Len(name) <= 1 THEN st
  ELSE IF job_submit_resource_name_in_set(name, {"m_mem_free", "mfree", "mem_free", "mf"})
    THEN ResourceMemory(st, value, line_no)
  ELSE IF job_submit_resource_name_equal(name, "h_rt")
    THEN ResourceTime(st, value, line_no)
  ELSE IF job_submit_resource_name_in_set(name, {"exclusive", "excl"})
    THEN ResourceExclusive(st, value, line_no)
  ELSE st

\* the value after the '=' at re: [vs, ve, delim], the value being the
\* characters vs..ve-1 and delim the character that must end it
ResourceValue(buf, re) ==
  With(At(buf, re + 1) \in {"\"", "'"}, LAMBDA quoted :
  With(IF quoted THEN At(buf, re + 1) ELSE ",", LAMBDA delim :
  With(IF quoted THEN re + 2 ELSE re + 1, LAMBDA vs :
    [vs |-> vs, ve |-> ValueEnd(buf, vs, delim, NUL), delim |-> delim])))

RECURSIVE ResourceList(_, _, _, _)
ResourceList(st, buf, s, line_no) ==
  IF At(buf, s) = NUL \/ At(buf, s) = "\n" \/ st.rc # SLURM_SUCCESS THEN st
  ELSE
    With(NameEnd(buf, s), LAMBDA re :
      IF At(buf, re) # "="
        THEN ResourceList(ResourceClause(st, SubSeq(buf, s, re - 1), "", line_no),
                          buf, re, line_no)
      ELSE With(ResourceValue(buf, re), LAMBDA v :
        IF v.delim # "," /\ At(buf, v.ve) # v.delim
          THEN Fail(st, "unterminated quoted string", line_no)
          ELSE ResourceList(ResourceClause(st, SubSeq(buf, s, re - 1),
                                           SubSeq(buf, v.vs, v.ve - 1), line_no),
                            buf,
                            IF At(buf, v.ve) # NUL /\ At(buf, v.ve) # "\n" THEN v.ve + 1 ELSE v.ve,
                            line_no)))

DirectiveResource(st, buf, s0, line_no) == ResourceList(st, buf, SkipBlank(buf, s0), line_no)

-----------------------------------------------------------------------------
(* job_submit_sge_parser                                                   *)

\* the environment already carries task or cpu counts chosen on the CLI
HasCpuCounts(env) ==
  \E k \in 1..Len(env) :
    StartsWith(env[k], "SLURM_NTASKS=") \/ StartsWith(env[k], "SLURM_CPUS_PER_TASK=")

\* one "#$ -<flag> ..." line; s is the position after the '-'
DirectiveFlag(st, buf, s, line_no, has_cpu_counts) ==
  With(At(buf, s), LAMBDA c :
    IF StartsAt(buf, s, "pe") /\ isspace(At(buf, s + 2))
      THEN DirectivePe(st, buf, s + 2, line_no, has_cpu_counts)
    ELSE IF ~isspace(At(buf, s + 1)) THEN st
    ELSE IF c = "m" THEN DirectiveMail(st, buf, s + 1, line_no)
    ELSE IF c = "M" THEN DirectiveMailUser(st, buf, s + 1)
    ELSE IF c = "N" THEN DirectiveName(st, buf, s + 1)
    ELSE IF c \in {"o", "e", "i"} THEN DirectiveStdio(st, buf, s + 1, c)
    ELSE IF c = "j" THEN DirectiveJoin(st, buf, s + 1, line_no)
    ELSE IF c = "q" THEN DirectiveQueue(st, buf, s + 1)
    ELSE IF c = "l" THEN DirectiveResource(st, buf, s + 1, line_no)
    ELSE st)

RECURSIVE LineLen(_, _)
LineLen(buf, i) == IF At(buf, i) # NUL /\ At(buf, i) # "\n" THEN 1 + LineLen(buf, i + 1) ELSE 0

\* drop the whitespace after "#$" (never past the end of the line)
RECURSIVE SkipLeading(_, _)
SkipLeading(buf, s) ==
  IF At(buf, s) # "\n" /\ isspace(At(buf, s)) THEN SkipLeading(buf, s + 1) ELSE s

\* one line of the comment block: a "#$ -" line is a directive
ScanLine(st, buf, line, line_no, has_cpu_counts) ==
  With(SkipLeading(buf, line + 2), LAMBDA s :
    IF At(buf, line + 1) = "$" /\ At(buf, s) = "-"
      THEN DirectiveFlag(st, buf, s + 1, line_no, has_cpu_counts)
      ELSE st)

RECURSIVE ScanAllLines(_, _, _, _, _)
ScanAllLines(st, buf, line, line_no, has_cpu_counts) ==
  IF At(buf, line) = NUL \/ st.rc # SLURM_SUCCESS THEN st
  ELSE
    With(line + LineLen(buf, line), LAMBDA eol :
      ScanAllLines(IF At(buf, line) = "#"
                     THEN ScanLine(st, buf, line, line_no, has_cpu_counts) ELSE st,
                   buf, IF At(buf, eol) = "\n" THEN eol + 1 ELSE eol,
                   line_no + 1, has_cpu_counts))

\* the scan of the leading comment block, one line per step
RECURSIVE ScanLines(_, _, _, _, _)
ScanLines(st, buf, line, line_no, has_cpu_counts) ==
  IF At(buf, line) # "#" \/ st.rc # SLURM_SUCCESS THEN st
  ELSE
    With(line + LineLen(buf, line), LAMBDA eol :
      ScanLines(ScanLine(st, buf, line, line_no, has_cpu_counts), buf,
                IF At(buf, eol) = "\n" THEN eol + 1 ELSE eol,
                line_no + 1, has_cpu_counts))

\* the file name that pairs with std_out: its ".out" suffix becomes ".err"
ErrNameFor(std_out) ==
  With(Len(std_out), LAMBDA n :
    IF n > 4 /\ SubSeq(std_out, n - 3, n) = ".out"
      THEN SubSeq(std_out, 1, n - 4) \o ".err"
      ELSE std_out \o ".err")

\* the -j n rule applied after the scan
PostScanStderr(st) ==
  IF st.should_join_stdout_stderr \/ st.is_set_stderr THEN st
  ELSE IF st.jd.std_out = NULL THEN [st EXCEPT !.jd.std_err = "slurm-%j.err"]
  ELSE [st EXCEPT !.jd.std_err = ErrNameFor(st.jd.std_out)]

job_submit_sge_parser(jd) ==
  With(ScanLines(ParserState(jd), jd.script, 1, 1, HasCpuCounts(jd.environment)), LAMBDA st :
    IF st.rc # SLURM_SUCCESS THEN st ELSE PostScanStderr(st))

-----------------------------------------------------------------------------
(* String-list helpers of the policy pass                                  *)

udhpc_workgroup_token == "_workgroup_"

\* the system group database (getgrgid_r / getgrnam)
LongGroupName == "g234567890123456789012345678901234567890123456789012345678901234"

SystemGroups ==
  { [gid |-> 100,  name |-> "users"],
    [gid |-> 499,  name |-> "staff"],
    [gid |-> 500,  name |-> "everyone"],
    [gid |-> 1001, name |-> "it_css"],
    [gid |-> 1002, name |-> "it_nss"],
    [gid |-> 1004, name |-> LongGroupName] }

getgrnam(name) == \E g \in SystemGroups : g.name = name

FirstGroup(the_gid) == "users"
\* getgrgid_r: the group name of the gid, NULL when there is no such group
getgrgid_r(the_gid) ==
  IF \E g \in SystemGroups : g.gid = the_gid
    THEN (CHOOSE g \in SystemGroups : g.gid = the_gid).name
    ELSE NULL

job_submit_is_nonempty_str(s) ==
  s # NULL /\ \E k \in 1..Len(s) : ~isspace(SubSeq(s, k, k))

\* job_submit_getgrgid: [name, cache]; the name is NULL when the gid does
\* not resolve or its name does not fit the 64-byte cache
job_submit_getgrgid(cache, the_gid) ==
  IF cache.is_cached /\ cache.cached_gid = the_gid
    THEN [name |-> cache.cached_gname, cache |-> cache]
  ELSE With(getgrgid_r(the_gid), LAMBDA gr_name :
    IF gr_name = NULL \/ Len(gr_name) >= 64
      THEN [name |-> NULL, cache |-> cache]
      ELSE [name |-> gr_name,
            cache |-> [is_cached |-> TRUE, cached_gid |-> the_gid, cached_gname |-> gr_name]])

\* skip to the next comma, then over the commas
RECURSIVE ToComma(_, _)
ToComma(s, p) == IF At(s, p) # NUL /\ At(s, p) # "," THEN ToComma(s, p + 1) ELSE p

RECURSIVE OverCommas(_, _)
OverCommas(s, p) == IF At(s, p) = "," THEN OverCommas(s, p + 1) ELSE p

\* position of the first occurrence of needle that is a whole element of
\* the comma-separated list, as the loop of job_submit_str_in_list finds it;
\* 0 if none
RECURSIVE ElementSearch(_, _, _, _)
ElementSearch(haystack, needle, fold_case, from) ==
  With(IF At(haystack, from) = NUL THEN 0 ELSE SearchFrom(haystack, from, needle, fold_case),
       LAMBDA p :
    IF p = 0 THEN 0
    ELSE IF p = 1 /\ At(haystack, p + Len(needle)) \in {",", NUL} THEN p
    ELSE IF p > 1 /\ At(haystack, p - 1) = "," /\ At(haystack, p + Len(needle)) \in {",", NUL}
      THEN p
    ELSE ElementSearch(haystack, needle, fold_case,
                       OverCommas(haystack, ToComma(haystack, p + Len(needle)))))

WholeListIs(haystack, needle, fold_case) == haystack = needle

job_submit_str_in_list(haystack, needle, fold_case) ==
  ElementSearch(haystack, needle, fold_case, 1) # 0

\* the list with the element found replaced, or NULL
job_submit_replace_str_in_list(haystack, needle, replacement, fold_case) ==
  With(ElementSearch(haystack, needle, fold_case, 1), LAMBDA p :
    IF p = 0 THEN NULL
    ELSE SubSeq(haystack, 1, p - 1) \o replacement \o From(haystack, p + Len(needle)))

RECURSIVE SkipDigits(_, _)
SkipDigits(s, p) == IF isdigit(At(s, p)) THEN SkipDigits(s, p + 1) ELSE p

\* the unit letters after the size: TRUE when exactly one of P/T/G/M and
\* exactly one B are followed by the end of the element
RECURSIVE UnitSuffix(_, _, _, _)
UnitSuffix(s, p, unit_char, byte_char) ==
  With(At(s, p), LAMBDA c :
    IF c \in {"P", "p", "T", "t", "G", "g", "M", "m"} THEN UnitSuffix(s, p + 1, unit_char + 1, byte_char)
    ELSE IF c \in {"b", "B"} THEN UnitSuffix(s, p + 1, unit_char, byte_char + 1)
    ELSE IF c \in {",", NUL} THEN unit_char = 1 /\ byte_char = 1
    ELSE FALSE)

\* position after the resource kind that starts the element at base, base
\* itself when the element starts with none
AfterResourceKind(list, base) ==
  IF CaseStartsAt(list, base, "compute") THEN base + 7
  ELSE IF CaseStartsAt(list, base, "gpu") THEN base + 3
  ELSE IF CaseStartsAt(list, base, "nvme") THEN base + 4
  ELSE base

RECURSIVE OwnedResourceFrom(_, _)
OwnedResourceFrom(list, base) ==
  IF At(list, base) = NUL THEN FALSE
  ELSE With(AfterResourceKind(list, base), LAMBDA p :
    IF p > base /\ At(list, p) = "-" /\ UnitSuffix(list, SkipDigits(list, p + 1), 0, 0)
      THEN TRUE
    ELSE With(ToComma(list, p), LAMBDA comma :
      IF At(list, comma) = "," THEN OwnedResourceFrom(list, comma + 1) ELSE FALSE))

job_submit_has_owned_resource_partition(partition_list) ==
  partition_list # NULL /\ OwnedResourceFrom(partition_list, 1)

\* getgrnam() is handed the partition pointer itself, i.e. the list from
\* this element to its end
job_submit_partition_is_workgroup(list, pos, partition_len) == getgrnam(From(list, pos))

\* the element of partition_len characters at pos is a prefix of the token
IsWorkgroupToken(list, pos, partition_len) ==
  /\ partition_len <= Len(udhpc_workgroup_token)
  /\ SubSeq(list, pos, pos + partition_len - 1) = SubSeq(udhpc_workgroup_token, 1, partition_len)

\* every element is the workgroup token or a workgroup partition
RECURSIVE WorkgroupOnly(_, _)
WorkgroupOnly(list, pos) ==
  IF At(list, pos) = NUL THEN TRUE
  ELSE With(ToComma(list, pos), LAMBDA comma :
    IF comma - pos = 0 THEN TRUE
    ELSE IF /\ ~IsWorkgroupToken(list, pos, comma - pos)
            /\ ~job_submit_partition_is_workgroup(list, pos, comma - pos)
      THEN FALSE
    ELSE WorkgroupOnly(list, OverCommas(list, comma)))

\* position of the count of the GPU request whose "gpu" ends before g0
GpuCountAt(gres, g0) ==
  With(IF CaseStartsAt(gres, g0, ":p100") THEN g0 + 5 ELSE g0, LAMBDA g1 :
    IF At(gres, g1) = ":" THEN g1 + 1 ELSE g1)

\* GPU count of a GRES request: total, or -1 for an invalid request
RECURSIVE GpuCount(_, _, _)
GpuCount(gres, from, gpu_count) ==
  With(SearchFrom(gres, from, "gpu", TRUE), LAMBDA f :
    IF f = 0 THEN gpu_count
    ELSE IF At(gres, f + 3) # ":"
      THEN GpuCount(gres, IF At(gres, f + 3) # NUL THEN f + 4 ELSE f + 3, gpu_count + 1)
    ELSE With(GpuCountAt(gres, f + 3), LAMBDA g :
      IF At(gres, g) = "," THEN GpuCount(gres, g + 1, gpu_count + 1)
      ELSE IF At(gres, g) = NUL THEN GpuCount(gres, g, gpu_count + 1)
      ELSE IF isdigit(At(gres, g))
        THEN With(strtol(gres, g, 10), LAMBDA n :
               IF n.e <= g THEN -1 ELSE GpuCount(gres, n.e, gpu_count + n.v))
      ELSE GpuCount(gres, g, gpu_count)))

-----------------------------------------------------------------------------
(* job_submit: directive interpretation, then the policy pass.  A pass      *)
(* state is [jd, rc, err, cache]; a step leaves a failed state alone.       *)

JOB_SHARED_MCS == 3

Reject(ps, text) == [ps EXCEPT !.rc = SLURM_ERROR, !.err = Err(text, 0)]

\* the job script is scanned when it is non-empty and starts with "#!"
StepScript(ps) ==
  IF job_submit_is_nonempty_str(ps.jd.script) /\ StartsWith(ps.jd.script, "#!")
    THEN With(job_submit_sge_parser(ps.jd), LAMBDA st :
           [ps EXCEPT !.jd = st.jd, !.rc = st.rc, !.err = st.err])
    ELSE ps

StepReserved(ps) ==
  IF ps.rc # SLURM_SUCCESS THEN ps
  ELSE IF /\ job_submit_is_nonempty_str(ps.jd.partition)
          /\ job_submit_str_in_list(ps.jd.partition, "reserved", TRUE)
          /\ ~job_submit_is_nonempty_str(ps.jd.reservation)
    THEN Reject(ps, "Jobs in the reserved partition require a reservation")
  ELSE ps

StepExclusive(ps) ==
  IF ps.rc # SLURM_SUCCESS THEN ps
  ELSE IF ps.jd.shared = JOB_SHARED_MCS
    THEN Reject(ps, "MCS is not enabled on this cluster, so you cannot use --exclusive=mcs")
  ELSE ps

StepMemory(ps) ==
  IF ps.rc # SLURM_SUCCESS THEN ps
  ELSE IF ps.jd.pn_min_memory = NO_VAL64
    THEN [ps EXCEPT !.jd.pn_min_memory = [per_cpu |-> TRUE, mb |-> UDHPC_MIN_MEM_MB]]
  ELSE ps

\* set the job account to match the submission group
StepAccount(ps, submit_uid) ==
  IF ps.rc # SLURM_SUCCESS \/ job_submit_is_nonempty_str(ps.jd.account) THEN ps
  ELSE IF ps.jd.group_id >= UDHPC_BASE_GID
    THEN With(job_submit_getgrgid(ps.cache, ps.jd.group_id), LAMBDA g :
           IF g.name # NULL
             THEN [ps EXCEPT !.jd.account = g.name, !.cache = g.cache]
             ELSE Reject([ps EXCEPT !.cache = g.cache], "Unable to resolve job submission gid " \o FmtU(ps.jd.group_id)))
  ELSE IF submit_uid # 0
    THEN Reject(ps, "Please choose a workgroup before submitting a job")
  ELSE ps

StepOwnedResourceQos(ps) ==
  IF ps.rc # SLURM_SUCCESS THEN ps
  ELSE IF /\ job_submit_has_owned_resource_partition(ps.jd.partition)
          /\ ~job_submit_is_nonempty_str(ps.jd.qos)
          /\ job_submit_is_nonempty_str(ps.jd.account)
    THEN [ps EXCEPT !.jd.qos = ps.jd.account]
  ELSE ps

StepPriorityAccessQos(ps) ==
  IF ps.rc # SLURM_SUCCESS THEN ps
  ELSE IF /\ job_submit_is_nonempty_str(ps.jd.partition)
          /\ ~job_submit_is_nonempty_str(ps.jd.qos)
          /\ WorkgroupOnly(ps.jd.partition, 1)
    THEN [ps EXCEPT !.jd.qos = "priority-access"]
  ELSE ps

\* the partition list with the workgroup token replaced by the group name
ReplaceWorkgroupToken(ps, g) ==
  IF g.name = NULL
    THEN Reject([ps EXCEPT !.cache = g.cache],
                "Unable to map submitting workgroup gid " \o FmtU(ps.jd.group_id) \o " to its name")
  ELSE With(job_submit_replace_str_in_list(ps.jd.partition, udhpc_workgroup_token, g.name, TRUE),
            LAMBDA new_partition :
    IF new_partition = NULL
      THEN Reject([ps EXCEPT !.cache = g.cache],
                  "Unable to replace _workgroup_ with " \o g.name \o " in partition list")
      ELSE [ps EXCEPT !.jd.partition = new_partition, !.cache = g.cache])

StepWorkgroupPartition(ps) ==
  IF ps.rc # SLURM_SUCCESS THEN ps
  ELSE IF /\ job_submit_is_nonempty_str(ps.jd.partition)
          /\ job_submit_str_in_list(ps.jd.partition, udhpc_workgroup_token, TRUE)
    THEN ReplaceWorkgroupToken(ps, job_submit_getgrgid(ps.cache, ps.jd.group_id))
  ELSE ps

StepGpu(ps) ==
  IF ps.rc # SLURM_SUCCESS \/ ~job_submit_is_nonempty_str(ps.jd.tres_per_node) THEN ps
  ELSE With(GpuCount(ps.jd.tres_per_node, 1, 0), LAMBDA gpu_count :
         IF gpu_count < 0 THEN Reject(ps, "Invalid GPU request option")
         ELSE IF gpu_count > 0
           THEN [ps EXCEPT !.jd.bitflags = @ \cup {"GRES_ENFORCE_BIND"},
                           !.jd.sockets_per_node = U16(gpu_count)]
         ELSE ps)

StepTimeMin(ps) ==
  IF ps.rc # SLURM_SUCCESS THEN ps
  ELSE IF ps.jd.time_min = NO_VAL THEN [ps EXCEPT !.jd.time_min = ps.jd.time_limit]
  ELSE ps

\* the policy pass, in the order of the code
PolicyPass(ps, submit_uid) ==
  StepTimeMin(StepGpu(StepWorkgroupPartition(StepPriorityAccessQos(StepOwnedResourceQos(
    StepAccount(StepMemory(StepExclusive(StepReserved(ps))), submit_uid))))))

job_submit(job_desc, submit_uid, cache) ==
  PolicyPass(StepScript([jd |-> job_desc, rc |-> SLURM_SUCCESS, err |-> NoErr, cache |-> cache]),
             submit_uid)

strcmp_differs(a, b) == a # b
\* xstrcasecmp(a, b) != 0 for two non-NULL strings
xstrcasecmp_differs(a, b) == ToLowerStr(a) # ToLowerStr(b)

\* job_modify: the job account cannot change
job_modify(job_desc, job_ptr) ==
  IF job_desc.account # NULL /\
     (job_ptr.account = NULL \/ xstrcasecmp_differs(job_desc.account, job_ptr.account))
    THEN SLURM_ERROR
    ELSE SLURM_SUCCESS

-----------------------------------------------------------------------------
(* Inputs of the admission callbacks                                       *)

MaxDirectives == 2        \* directive lines of a multi-directive script

Shebang == "#!/bin/bash\n"

\* slot counts around the limits of the 16-bit cpus_per_task field
SlotCounts == {1, 2, 4, 65534, 65535}

SlotRanges == {<<1, 1>>, <<2, 8>>, <<3, 3>>, <<4, 65535>>}

PeThreadsLine(n) == "#$ -pe threads " \o FmtU(n) \o "\n"

PeMpiLine(name, r) == "#$ -pe " \o name \o " " \o FmtU(r[1]) \o "-" \o FmtU(r[2]) \o "\n"

PeLines ==
  { PeThreadsLine(n) : n \in SlotCounts }
  \cup { PeMpiLine(name, r) : name \in {"mpi", "generic-mpi"}, r \in SlotRanges }
  \cup { "#$ -pe mpi 4\n", "#$ -pe mpi -8\n", "#$ -pe threads 2-4\n", "#$ -pe threads 65536\n",
         "#$ -pe mpi 8-2\n", "#$ -pe mpi 0\n", "#$ -pe mpi 2-\n", "#$ -pe smp 4\n", "#$ -pe mpi\n" }

OtherLines ==
  { "#$ -o run.out\n", "#$ -e job.err\n", "#$ -i input.txt\n", "#$ -o node1:run.out\n",
    "#$ -o $JOB_NAME.$JOB_ID.out\n",
    "#$ -j n\n", "#$ -j y\n", "#$ -j maybe\n",
    "#$ -N myjob\n", "#$ -M user@udel.edu\n", "#$ -m be\n", "#$ -m x\n",
    "#$ -q _workgroup_\n", "#$ -q reserved\n", "#$ -q compute-128GB@node1,standard\n",
    "#$ -l h_rt=90\n", "#$ -l m_mem_free=4G\n", "#$ -l exclusive=true\n", "#$ -l h_rt=1:30:00,mf=2g\n",
    "#$ -l mf='4G\n",
    "# plain comment\n", "#$ -cwd\n" }

SingleScripts == { Shebang \o l \o "echo hello\n" : l \in PeLines \cup OtherLines }

ComboLines ==
  { "#$ -pe threads 4\n", "#$ -pe mpi 2-8\n", "#$ -o run.out\n", "#$ -e job.err\n",
    "#$ -j n\n", "#$ -N myjob\n", "#$ -l h_rt=90\n", "\n" }

RECURSIVE Combos(_)
Combos(n) ==
  IF n = 0 THEN {""} ELSE Combos(n - 1) \cup { l \o r : l \in ComboLines, r \in Combos(n - 1) }

ComboScripts == { Shebang \o c : c \in Combos(MaxDirectives) } \cup { "#$ -pe threads 4\n", "", "echo\n" }

\* a non-default value for every field a directive or the policy pass may set
PresetValue ==
  [ std_out |-> "cli.out", std_err |-> "cli.err", std_in |-> "cli.in",
    name |-> "cliname", comment |-> "clicomment",
    mail_type |-> {"MAIL_JOB_FAIL"}, mail_user |-> "cli@udel.edu",
    partition |-> "standard", qos |-> "normal", account |-> "it_nss",
    pn_min_memory |-> [per_cpu |-> FALSE, mb |-> 8192],
    time_limit |-> 30, time_min |-> 10, shared |-> 2,
    num_tasks |-> 16, cpus_per_task |-> 2, min_cpus |-> 32,
    sockets_per_node |-> 1 ]

GuardedFields == DOMAIN PresetValue

Preset(jd, F) == [f \in DOMAIN jd |-> IF f \in F THEN PresetValue[f] ELSE jd[f]]

PresetDescs ==
  { Preset(DefaultJobDesc, F) : F \in {{}} \cup {{f} : f \in GuardedFields} \cup {GuardedFields} }

EnvChoices ==
  { <<>>, <<"PATH=/bin">>, <<"SLURM_NTASKS=2">>, <<"SLURM_CPUS_PER_TASK=2">>, <<"SLURM_NPROCS=2">> }

GidChoices == {100, 499, 500, 1001, 1002, 1003, 1004}
UidChoices == {0, 1000}

PartitionChoices ==
  { NULL, "", "standard", "_workgroup_", "it_css", "standard,_workgroup_", "_workgroup_,_workgroup_",
    "reserved", "compute-128GB", "it_css,gpu-32GB", "Reserved,standard",
    "it_css,it_nss", "_workgroup_,it_nss", "it_nss,_workgroup_", "it_css,standard",
    "_workgroup_,standard,_workgroup_", "_work" }

AccountChoices == { NULL, "", " ", "it_nss" }

GresChoices == { NULL, "gpu", "gpu:2", "gpu:p100:2,gpu:1", "gpu:v100:2", "gpu:0" }

\* family 1: one directive, on every preset descriptor and with every environment
DirectiveInputs ==
  { [jd |-> [d EXCEPT !.script = s, !.group_id = 1001], submit_uid |-> 1000] :
      d \in PresetDescs, s \in SingleScripts }
  \cup
  { [jd |-> [DefaultJobDesc EXCEPT !.script = s, !.environment = e, !.group_id = 1001],
     submit_uid |-> 1000] :
      s \in SingleScripts, e \in EnvChoices }

\* family 2: several directives on an otherwise default descriptor
ComboInputs ==
  { [jd |-> [DefaultJobDesc EXCEPT !.script = s, !.group_id = g], submit_uid |-> 1000] :
      s \in ComboScripts, g \in {100, 1001, 1003} }

\* family 3: the policy pass alone
PolicyInputs ==
  { [jd |-> [DefaultJobDesc EXCEPT !.partition = p, !.qos = q, !.reservation = r, !.group_id = g],
     submit_uid |-> 1000] :
      p \in PartitionChoices, q \in {NULL, "normal"}, r \in {NULL, "maint"}, g \in {1001, 1003} }
  \cup
  { [jd |-> [DefaultJobDesc EXCEPT !.partition = p, !.account = a, !.group_id = g],
     submit_uid |-> u] :
      p \in {NULL, "_workgroup_", "compute-128GB"}, a \in AccountChoices,
      g \in GidChoices, u \in UidChoices }
  \cup
  { [jd |-> [d EXCEPT !.tres_per_node = t, !.group_id = 1002, !.shared = sh], submit_uid |-> 1000] :
      d \in { Preset(DefaultJobDesc, F) : F \in {{}, {"sockets_per_node"}, GuardedFields} },
      t \in GresChoices, sh \in {NO_VAL16, 0, JOB_SHARED_MCS} }

\* h_rt values: the text and the hours, minutes and seconds it is written for
TimeCases ==
  { [text |-> "01:30:00", H |-> 1,  M |-> 30, S |-> 0],
    [text |-> "1:30:00",  H |-> 1,  M |-> 30, S |-> 0],
    [text |-> "08:00:00", H |-> 8,  M |-> 0,  S |-> 0],
    [text |-> "10:00:00", H |-> 10, M |-> 0,  S |-> 0],
    [text |-> "0:09:30",  H |-> 0,  M |-> 9,  S |-> 30],
    [text |-> "00:00:59", H |-> 0,  M |-> 0,  S |-> 59],
    [text |-> "2:0:1",    H |-> 2,  M |-> 0,  S |-> 1],
    [text |-> "90",       H |-> 0,  M |-> 0,  S |-> 90],
    [text |-> "60",       H |-> 0,  M |-> 0,  S |-> 60],
    [text |-> "3601",     H |-> 0,  M |-> 0,  S |-> 3601],
    [text |-> "0",        H |-> 0,  M |-> 0,  S |-> 0] }

TimeLine(text) == "#$ -l h_rt=" \o text \o "\n"

\* m_mem_free values: the text and the whole MiB its byte count rounds up to
MemoryCases ==
  { [text |-> "4G",       mib |-> 4096],
    [text |-> "4g",       mib |-> 3815],
    [text |-> "2g",       mib |-> 1908],
    [text |-> "2048M",    mib |-> 2048],
    [text |-> "512M",     mib |-> 512],
    [text |-> "1500m",    mib |-> 1431],
    [text |-> "1048577K", mib |-> 1025],
    [text |-> "1K",       mib |-> 1],
    [text |-> "1",        mib |-> 1],
    [text |-> "0",        mib |-> 0] }

MemoryLine(text) == "#$ -l m_mem_free=" \o text \o "\n"

\* family 4: the typed values of -l, on an otherwise default descriptor
ConverterInputs ==
  { [jd |-> [DefaultJobDesc EXCEPT !.script = Shebang \o l \o "echo hello\n",
                                   !.group_id = 1001],
     submit_uid |-> 1000] :
      l \in { TimeLine(c.text) : c \in TimeCases } \cup { MemoryLine(c.text) : c \in MemoryCases } }

\* scripts with -j, -e and -o: the directive lines, whether the last -j is
\* "-j n", and the path a -e directive names (NULL when there is none)
JoinCases ==
  { [lines |-> "#$ -j n\n",                 join_n |-> TRUE,  err |-> NULL],
    [lines |-> "#$ -j no\n",                join_n |-> TRUE,  err |-> NULL],
    [lines |-> "#$ -j y\n",                 join_n |-> FALSE, err |-> NULL],
    [lines |-> "#$ -j n\n#$ -j y\n",        join_n |-> FALSE, err |-> NULL],
    [lines |-> "#$ -j yes\n#$ -j n\n",      join_n |-> TRUE,  err |-> NULL],
    [lines |-> "#$ -e job.err\n#$ -j n\n",  join_n |-> TRUE,  err |-> "job.err"],
    [lines |-> "#$ -j n\n#$ -o x.out\n",    join_n |-> TRUE,  err |-> NULL],
    [lines |-> "#$ -N myjob\n",             join_n |-> FALSE, err |-> NULL] }

StdoutChoices == { NULL, "run.out", ".out", "a.out", "log", "out", "run.out.txt" }
StderrChoices == { NULL, "cli.err" }

\* family 5: the stdio paths of the descriptor against -j, -e and -o
StdioInputs ==
  { [jd |-> [DefaultJobDesc EXCEPT !.script = Shebang \o c.lines \o "echo hello\n",
                                   !.std_out = o, !.std_err = e, !.group_id = 1001],
     submit_uid |-> 1000] :
      c \in JoinCases, o \in StdoutChoices, e \in StderrChoices }

\* GPU tokens gpu[:type][:count] and the count each one asks for
GpuTokens ==
  { [text |-> "gpu",        count |-> 1],
    [text |-> "gpu:2",      count |-> 2],
    [text |-> "gpu:0",      count |-> 0],
    [text |-> "gpu:p100",   count |-> 1],
    [text |-> "gpu:p100:2", count |-> 2],
    [text |-> "gpu:P100:1", count |-> 1],
    [text |-> "gpu:v100",   count |-> 1],
    [text |-> "gpu:v100:2", count |-> 2],
    [text |-> "gpu:a40:4",  count |-> 4] }

\* generic-resource requests of one or two GPU tokens, with their totals
GresCases ==
  { [text |-> t.text, total |-> t.count] : t \in GpuTokens }
  \cup
  { [text |-> t.text \o "," \o u.text, total |-> t.count + u.count] :
      t \in GpuTokens, u \in GpuTokens }

GresInputs ==
  { [jd |-> [DefaultJobDesc EXCEPT !.tres_per_node = c.text, !.group_id = 1001],
     submit_uid |-> 1000] : c \in GresCases }

\* -q directives and the partition list each one is written for
QueueCases ==
  { [line |-> "#$ -q reserved\n",                partition |-> "reserved"],
    [line |-> "#$ -q standard,reserved\n",       partition |-> "standard,reserved"],
    [line |-> "#$ -q reserved@node1,standard\n", partition |-> "reserved,standard"],
    [line |-> "#$ -q unreserved,reserved\n",     partition |-> "unreserved,reserved"],
    [line |-> "#$ -q unreserved\n",              partition |-> "unreserved"],
    [line |-> "#$ -q standard\n",                partition |-> "standard"] }

ReservationChoices == { NULL, "", " ", "maint" }

ReservedPartitions ==
  { "reserved", "standard,reserved", "reserved,standard", "unreserved,reserved",
    "reserved2,reserved", "standard,reserved,it_css", "unreserved", "reserved2" }

ReservedInputs ==
  { [jd |-> [DefaultJobDesc EXCEPT !.script = Shebang \o c.line \o "echo hello\n",
                                   !.reservation = r, !.group_id = 1001],
     submit_uid |-> 1000] : c \in QueueCases, r \in ReservationChoices }
  \cup
  { [jd |-> [DefaultJobDesc EXCEPT !.partition = p, !.reservation = r, !.group_id = 1001],
     submit_uid |-> 1000] : p \in ReservedPartitions, r \in ReservationChoices }

\* directive lines placed after the end of the leading comment block
LateLines ==
  { "#$ -N late\n#$ -q reserved\n#$ -l h_rt=60\n#$ -o late.out\n#$ -j n\n",
    "#$ -pe threads 4\n#$ -M late@udel.edu\n#$ -m be\n",
    "#$ -m x\n",
    "#$ -l exclusive=maybe\n" }

\* script heads that begin with "#!" and end with the first line that does
\* not start with '#'
BlockHeads ==
  { Shebang \o block \o brk :
      block \in { "", "# plain comment\n", "#$ -N early\n", "#$ -l h_rt=120\n#$ -o early.out\n",
                  "#$ -N\n", "#$ -o\n", "#$ -e\n", "#$ -q\n", "#$ -M\n", "#$ -l\n", "#$ -cwd\n" },
      brk \in { "\n", "echo hello\n", " #$ -N indented\n" } }

\* script heads that do not begin with "#!"
PlainHeads == { "", "# plain comment\n", "\n#!/bin/bash\n", " #!/bin/bash\n", "#$ -N first\n", "echo hello\n" }

BoundaryCases ==
  { [head |-> h, tail |-> t] : h \in BlockHeads \cup PlainHeads, t \in LateLines }

BoundaryScripts ==
  { c.head \o c.tail : c \in BoundaryCases } \cup BlockHeads \cup (PlainHeads \ {""})

BoundaryInputs ==
  { [jd |-> [DefaultJobDesc EXCEPT !.script = s, !.group_id = 1001], submit_uid |-> 1000] :
      s \in BoundaryScripts }

\* malformed directives
BadDirectives ==
  { "#$ -pe threads 0\n", "#$ -pe threads 4-x\n", "#$ -pe mpi 8-4\n", "#$ -pe bogus 4\n",
    "#$ -m x\n", "#$ -j maybe\n", "#$ -l mf='4G\n", "#$ -l mf=abc\n",
    "#$ -l h_rt=1:30\n", "#$ -l h_rt=-5\n", "#$ -l exclusive=maybe\n" }

\* the comment lines that may stand before a directive, and the name,
\* output path and mail address their directives are written to set
LeadingLines ==
  { [lines |-> <<>>, name |-> NULL, std_out |-> NULL, mail_user |-> NULL],
    [lines |-> <<"# plain comment\n">>, name |-> NULL, std_out |-> NULL, mail_user |-> NULL],
    [lines |-> <<"#$ -N myjob\n">>, name |-> "myjob", std_out |-> NULL, mail_user |-> NULL],
    [lines |-> <<"#\n", "#$ -o run.out\n">>,
     name |-> NULL, std_out |-> "run.out", mail_user |-> NULL],
    [lines |-> <<"#$ -cwd\n", "# plain comment\n", "#$ -M user@udel.edu\n">>,
     name |-> NULL, std_out |-> NULL, mail_user |-> "user@udel.edu"] }

RECURSIVE Concat(_)
Concat(lines) == IF lines = <<>> THEN "" ELSE Head(lines) \o Concat(Tail(lines))

\* a script whose first malformed directive is b, and the number of the line it is on
ErrorCases ==
  { [script |-> Shebang \o Concat(l.lines) \o b \o after \o "echo hello\n",
     line |-> Len(l.lines) + 2, leading |-> l] :
      l \in LeadingLines, b \in BadDirectives, after \in {"", "#$ -m x\n"} }

ErrorInputs ==
  { [jd |-> [DefaultJobDesc EXCEPT !.script = c.script, !.group_id = 1001], submit_uid |-> 1000] :
      c \in ErrorCases }

\* -l directives of several clauses, with the time limit in minutes and the
\* memory per CPU in MiB that their recognised clauses ask for (NO_VAL and
\* UDHPC_MIN_MEM_MB when no clause asks)
ClauseCases ==
  { [line |-> "#$ -l h_rt=120\n",               minutes |-> 2,      mb |-> UDHPC_MIN_MEM_MB],
    [line |-> "#$ -l mf=2G,h_rt=120\n",         minutes |-> 2,      mb |-> 2048],
    [line |-> "#$ -l foo=1,h_rt=120\n",         minutes |-> 2,      mb |-> UDHPC_MIN_MEM_MB],
    [line |-> "#$ -l foo=\"a,b\",mf=2G\n",      minutes |-> NO_VAL, mb |-> 2048],
    [line |-> "#$ -l h_rt=120,foo\n",           minutes |-> 2,      mb |-> UDHPC_MIN_MEM_MB],
    [line |-> "#$ -l foo,h_rt=120\n",           minutes |-> 2,      mb |-> UDHPC_MIN_MEM_MB],
    [line |-> "#$ -l mf=\"2G\",h_rt=120\n",     minutes |-> 2,      mb |-> 2048],
    [line |-> "#$ -l H_RT=120,MF=2G\n",         minutes |-> 2,      mb |-> 2048],
    [line |-> "#$ -l h_=120,mem=2G\n",          minutes |-> NO_VAL, mb |-> UDHPC_MIN_MEM_MB],
    [line |-> "#$ -l h_rt2=120,mfx=2G\n",       minutes |-> NO_VAL, mb |-> UDHPC_MIN_MEM_MB] }

ClauseInputs ==
  { [jd |-> [DefaultJobDesc EXCEPT !.script = Shebang \o c.line \o "echo hello\n",
                                   !.group_id = 1001],
     submit_uid |-> 1000] : c \in ClauseCases }

\* partition lists, and whether some element is written <kind>-<digits><unit>B
\* with kind compute, gpu or nvme, at least one digit and one unit letter
HardwareCases ==
  { [partition |-> "compute-128GB",      hardware |-> TRUE],
    [partition |-> "gpu-32GB,standard",  hardware |-> TRUE],
    [partition |-> "it_css,nvme-2TB",    hardware |-> TRUE],
    [partition |-> "standard,gpu-512MB", hardware |-> TRUE],
    [partition |-> "compute-1PB",        hardware |-> TRUE],
    [partition |-> "standard",           hardware |-> FALSE],
    [partition |-> "it_css",             hardware |-> FALSE],
    [partition |-> "it_css,it_nss",      hardware |-> FALSE],
    [partition |-> "compute-128G",       hardware |-> FALSE],
    [partition |-> "compute-128B",       hardware |-> FALSE],
    [partition |-> "gpu-32GGB",          hardware |-> FALSE],
    [partition |-> "gpu-32GBB",          hardware |-> FALSE],
    [partition |-> "gpu-32GBs",          hardware |-> FALSE],
    [partition |-> "computer-128GB",     hardware |-> FALSE],
    [partition |-> "gpu32GB",            hardware |-> FALSE],
    [partition |-> "mygpu-32GB",         hardware |-> FALSE],
    [partition |-> "gpu-GB",             hardware |-> FALSE],
    [partition |-> "standard,nvme-TB",   hardware |-> FALSE],
    [partition |-> "gpu-32BG",           hardware |-> FALSE] }

HardwareInputs ==
  { [jd |-> [DefaultJobDesc EXCEPT !.partition = c.partition, !.account = a, !.group_id = 1001],
     submit_uid |-> 1000] : c \in HardwareCases, a \in {NULL, "it_nss"} }

SubmitInputs ==
  DirectiveInputs \cup ComboInputs \cup PolicyInputs \cup ConverterInputs \cup StdioInputs
  \cup GresInputs \cup ReservedInputs \cup BoundaryInputs \cup ErrorInputs \cup ClauseInputs
  \cup HardwareInputs

ModifyInputs ==
  { [job_desc |-> [DefaultJobDesc EXCEPT !.account = a], job_ptr |-> [account |-> b]] :
      a \in {NULL, "", "it_css", "IT_CSS", "it_nss"}, b \in {NULL, "it_css", "it_nss"} }

-----------------------------------------------------------------------------
(* The admission daemon: one callback at a time                            *)

NoCache == [is_cached |-> FALSE, cached_gid |-> 0, cached_gname |-> ""]

Cache == [is_cached |-> is_cached, cached_gid |-> cached_gid, cached_gname |-> cached_gname]

IdleReq == [jd |-> DefaultJobDesc]
IdleRes == [jd |-> DefaultJobDesc, rc |-> SLURM_SUCCESS, err |-> NoErr]

InitSubmit ==
  /\ is_cached = FALSE /\ cached_gid = 0 /\ cached_gname = ""
  /\ op = "idle"
  /\ req = IdleReq
  /\ res = IdleRes
  /\ fs = <<>> /\ ctx = <<>> /\ rmlog = <<>>

\* the daemon calls job_submit on a submission
JobSubmit ==
  /\ op = "idle"
  /\ \E in \in SubmitInputs :
       \E out \in {job_submit(in.jd, in.submit_uid, Cache)} :
         /\ op' = "job_submit"
         /\ req' = in
         /\ res' = [jd |-> out.jd, rc |-> out.rc, err |-> out.err]
         /\ is_cached' = out.cache.is_cached
         /\ cached_gid' = out.cache.cached_gid
         /\ cached_gname' = out.cache.cached_gname
  /\ UNCHANGED scratchVars

\* the daemon calls job_modify on a modification request
JobModify ==
  /\ op = "idle"
  /\ \E in \in ModifyInputs :
       /\ op' = "job_modify"
       /\ req' = [jd |-> in.job_desc, job_ptr |-> in.job_ptr]
       /\ res' = [jd |-> in.job_desc, rc |-> job_modify(in.job_desc, in.job_ptr), err |-> NoErr]
  /\ UNCHANGED <<is_cached, cached_gid, cached_gname>>
  /\ UNCHANGED scratchVars

\* the callback has returned; the daemon waits for the next request
Return ==
  /\ op # "idle"
  /\ op' = "idle"
  /\ req' = IdleReq
  /\ res' = IdleRes
  /\ UNCHANGED <<is_cached, cached_gid, cached_gname>>
  /\ UNCHANGED scratchVars

NextSubmit == JobSubmit \/ JobModify \/ Return

SpecSubmit == InitSubmit /\ [][NextSubmit]_vars
-----------------------------------------------------------------------------
(* The node's filesystem, as the SPANK plugin sees it.  A path is the       *)
(* sequence of its components; fs maps every existing path to its inode.   *)

NoPath == <<>>
NoNode == [type |-> "none", uid |-> 0, target |-> NoPath, open |-> FALSE]

Dir(uid, open) == [type |-> "dir", uid |-> uid, target |-> NoPath, open |-> open]
File(uid) == [type |-> "file", uid |-> uid, target |-> NoPath, open |-> FALSE]
Link(uid, target) == [type |-> "link", uid |-> uid, target |-> target, open |-> FALSE]

\* p is root or lies below it
IsUnder(p, root) == Len(p) >= Len(root) /\ SubSeq(p, 1, Len(root)) = root

Parent(p) == SubSeq(p, 1, Len(p) - 1)

\* the entries of the directory d
Entries(f, d) == { q \in DOMAIN f : Len(q) = Len(d) + 1 /\ Parent(q) = d }

\* the path a name resolves to: a symbolic link in the last component is followed
Resolve(f, p) == IF p \in DOMAIN f /\ f[p].type = "link" THEN f[p].target ELSE p

\* stat(2): follows a symbolic link
stat(f, p) == IF Resolve(f, p) \in DOMAIN f THEN f[Resolve(f, p)] ELSE NoNode

FollowingStat(f, p) == stat(f, p)
\* the stat buffer of an FTSENT under FTS_PHYSICAL: lstat(2), the link itself
fts_statp(f, p) == IF p \in DOMAIN f THEN f[p] ELSE NoNode

S_ISDIR(node) == node.type = "dir"

\* the filesystem without the entry p
Unlinked(f, p) == [q \in DOMAIN f \ {p} |-> f[q]]

\* the filesystem with the entry p
Created(f, p, node) == [q \in DOMAIN f \cup {p} |-> IF q = p THEN node ELSE f[q]]

\* mkdir(p, 0700) as uid: the parent must be a directory the user may write
mkdir(f, p, uid) ==
  IF /\ p \notin DOMAIN f
     /\ S_ISDIR(stat(f, Parent(p)))
     /\ (stat(f, Parent(p)).uid = uid \/ stat(f, Parent(p)).open)
    THEN [ok |-> TRUE, fs |-> Created(f, p, Dir(uid, FALSE))]
    ELSE [ok |-> FALSE, fs |-> f]

\* strlen of the path as snprintf writes it
RECURSIVE PathLen(_)
PathLen(p) == IF p = <<>> THEN 0 ELSE 1 + Len(Head(p)) + PathLen(Tail(p))

-----------------------------------------------------------------------------
(* The job and its SPANK contexts                                          *)

SLURM_BATCH_SCRIPT == NO_VAL

\* what spank_get_item() and geteuid() hand to the plugin
JobItems == [S_JOB_ID |-> 12345, S_JOB_UID |-> 1000, other_uid |-> 2000, root_uid |-> 0]

Contexts == {"batch", "step", "local"}

S_JOB_STEPID(c) == IF c = "batch" THEN SLURM_BATCH_SCRIPT ELSE 3

spank_remote(c) == c # "local"

\* _opt_tmpdir: the static base_tmpdir after --tmpdir=optarg, a path that
\* does not start with '/' is refused and leaves it NULL
_opt_tmpdir(optarg) == IF StartsWith(optarg, "/") THEN <<From(optarg, 2)>> ELSE NoPath

_get_base_tmpdir(base_tmpdir) == IF base_tmpdir # NoPath THEN base_tmpdir ELSE <<"tmp">>

\* "%s/%u" of the base and the job id
JobDirOf(base_tmpdir) == _get_base_tmpdir(base_tmpdir) \o <<FmtU(JobItems.S_JOB_ID)>>

JobDirAlways(base_tmpdir, c) == JobDirOf(base_tmpdir)

\* "%s/%u" or "%s/%u/%u", by the context's step id
TmpdirOf(base_tmpdir, c) ==
  IF S_JOB_STEPID(c) = SLURM_BATCH_SCRIPT THEN JobDirOf(base_tmpdir)
  ELSE JobDirOf(base_tmpdir) \o <<FmtU(S_JOB_STEPID(c))>>

JobDir == JobDirOf(NoPath)

HomeDir == <<"home">>
HomeFile == <<"home", "data">>

\* one mkdir-if-missing of _get_tmpdir: g is [rc, fs, made]
EnsureDir(g, p, uid) ==
  IF g.rc < 0 THEN g
  ELSE IF stat(g.fs, p) = NoNode
    THEN With(mkdir(g.fs, p, uid), LAMBDA m :
           IF m.ok THEN [g EXCEPT !.fs = m.fs, !.made = @ \cup {p}]
           ELSE [g EXCEPT !.rc = -1])
  ELSE IF ~S_ISDIR(stat(g.fs, p)) THEN [g EXCEPT !.rc = -1]
  ELSE g

\* _get_tmpdir: [rc, path, fs, made]; rc is the length of the path, or -1
_get_tmpdir(f, c, uid, base_tmpdir) ==
  With(TmpdirOf(base_tmpdir, c), LAMBDA path :
    IF ~S_ISDIR(stat(f, _get_base_tmpdir(base_tmpdir)))
      THEN [rc |-> -1, path |-> path, fs |-> f, made |-> {}]
    ELSE With(EnsureDir([rc |-> 0, fs |-> f, made |-> {}], JobDirOf(base_tmpdir), uid), LAMBDA g1 :
         With(IF S_JOB_STEPID(c) # SLURM_BATCH_SCRIPT THEN EnsureDir(g1, path, uid) ELSE g1,
              LAMBDA g2 :
           [rc |-> IF g2.rc < 0 THEN -1 ELSE PathLen(path),
            path |-> path, fs |-> g2.fs, made |-> g2.made])))

-----------------------------------------------------------------------------
(* _rmdir_recurse: the fts(3) walk and the removals                        *)

\* the order readdir(3) may hand the names out in
NameOrder == <<"3", "12345", "a", "b", "data", "x">>

RECURSIVE Reverse(_)
Reverse(s) == IF s = <<>> THEN <<>> ELSE Append(Reverse(Tail(s)), Head(s))

\* the names of the entries of d, in directory order
readdir(f, d, rev) ==
  With(SelectSeq(NameOrder, LAMBDA n : (d \o <<n>>) \in DOMAIN f), LAMBDA names :
    IF rev THEN Reverse(names) ELSE names)

fts_info(f, p) ==
  With(fts_statp(f, p), LAMBDA node :
    IF node.type = "dir" THEN "FTS_D"
    ELSE IF node.type = "link" THEN "FTS_SL"
    ELSE IF node.type = "file" THEN "FTS_F"
    ELSE "FTS_NS")

FTSENT(p, info) == [fts_path |-> p, fts_info |-> info]

\* the entries fts_read() returns for the tree at p, in order: a directory
\* in pre-order (FTS_D), what is below it, the directory in post-order (FTS_DP)
RECURSIVE fts_read(_, _, _)
RECURSIVE fts_children(_, _, _, _)
fts_read(f, p, rev) ==
  IF fts_info(f, p) = "FTS_D"
    THEN <<FTSENT(p, "FTS_D")>>
         \o fts_children(f, Resolve(f, p), readdir(f, Resolve(f, p), rev), rev)
         \o <<FTSENT(p, "FTS_DP")>>
    ELSE <<FTSENT(p, fts_info(f, p))>>

fts_children(f, d, names, rev) ==
  IF names = <<>> THEN <<>>
  ELSE fts_read(f, d \o <<Head(names)>>, rev) \o fts_children(f, d, Tail(names), rev)

\* remove(3) of one entry; r is [fs, log, rc].  The entry "raced" has been
\* removed by another process since the walk read its directory.
remove(r, ent, raced) ==
  IF ent.fts_path = raced
    THEN [fs |-> Unlinked(r.fs, ent.fts_path),
          log |-> Append(r.log, [path |-> ent.fts_path, info |-> ent.fts_info, ok |-> FALSE]),
          rc |-> -1]
  ELSE IF \/ ent.fts_path \notin DOMAIN r.fs
          \/ (r.fs[ent.fts_path].type = "dir" /\ Entries(r.fs, ent.fts_path) # {})
    THEN [r EXCEPT !.log = Append(@, [path |-> ent.fts_path, info |-> ent.fts_info, ok |-> FALSE]),
                   !.rc = -1]
  ELSE [r EXCEPT !.fs = Unlinked(@, ent.fts_path),
                 !.log = Append(@, [path |-> ent.fts_path, info |-> ent.fts_info, ok |-> TRUE])]

RemovedOnEntry(info) == info \in {"FTS_D", "FTS_F", "FTS_SL", "FTS_SLNONE", "FTS_DEFAULT"}
\* the cases of the switch that call remove(): a directory only at FTS_DP
RemovedCase(info) == info \in {"FTS_DP", "FTS_F", "FTS_SL", "FTS_SLNONE", "FTS_DEFAULT"}

\* one pass of the loop body
RmdirStep(r, ent, raced) ==
  IF ent.fts_info \in {"FTS_NS", "FTS_DNR", "FTS_ERR"} THEN [r EXCEPT !.rc = -1]
  ELSE IF RemovedCase(ent.fts_info) THEN remove(r, ent, raced)
  ELSE r

RECURSIVE RmdirLoop(_, _, _)
RmdirLoop(r, ents, raced) ==
  IF ents = <<>> THEN r
  ELSE RmdirLoop(RmdirStep(r, Head(ents), raced), Tail(ents), raced)

AnyUid(st_uid, match_uid) == TRUE
\* the ownership test on the top-level directory
UidMatches(st_uid, match_uid) == st_uid = match_uid

\* _rmdir_recurse(path, match_uid): [fs, log, rc]
_rmdir_recurse(f, path, match_uid, rev, raced) ==
  IF fts_info(f, path) # "FTS_D" THEN [fs |-> f, log |-> <<>>, rc |-> 0]
  ELSE IF ~UidMatches(fts_statp(f, path).uid, match_uid) THEN [fs |-> f, log |-> <<>>, rc |-> -1]
  ELSE RmdirLoop([fs |-> f, log |-> <<>>, rc |-> 0], Tail(fts_read(f, path, rev)), raced)

\* slurm_spank_exit: [fs, log, rc] with rc the value the callback returns
slurm_spank_exit(f, c, tmpdir, rev, raced) ==
  IF tmpdir = NoPath THEN [fs |-> f, log |-> <<>>, rc |-> 0]
  ELSE IF spank_remote(c)
    THEN IF S_ISDIR(stat(f, tmpdir))
           THEN With(_rmdir_recurse(f, tmpdir, JobItems.S_JOB_UID, rev, raced), LAMBDA r :
                  IF r.rc # 0 THEN [r EXCEPT !.rc = -1] ELSE r)
           ELSE [fs |-> f, log |-> <<>>, rc |-> 0]
  ELSE IF stat(f, tmpdir) # NoNode /\ S_ISDIR(stat(f, tmpdir))
    THEN With(_rmdir_recurse(f, tmpdir, JobItems.S_JOB_UID, rev, raced), LAMBDA r :
           IF r.rc # 0 THEN [r EXCEPT !.rc = -1] ELSE r)
  ELSE [fs |-> f, log |-> <<>>, rc |-> 0]

-----------------------------------------------------------------------------
(* Scenarios of the scratch lifecycle                                      *)

MaxEntries == 3      \* entries the job's tasks create in their scratch trees

\* the node before the job: /tmp and the user's home, and then either no
\* job directory, one left by another user, or a file of that name
BaseFs ==
  (<<"tmp">> :> Dir(JobItems.root_uid, TRUE))
  @@ (<<"scratch">> :> Dir(JobItems.root_uid, TRUE))
  @@ (HomeDir :> Dir(JobItems.S_JOB_UID, FALSE))
  @@ (HomeFile :> File(JobItems.S_JOB_UID))

InitialFilesystems ==
  { BaseFs,
    BaseFs @@ (JobDir :> Dir(JobItems.other_uid, FALSE))
           @@ ((JobDir \o <<"x">>) :> File(JobItems.other_uid)),
    BaseFs @@ (JobDir :> File(JobItems.S_JOB_UID)),
    (<<"tmp">> :> File(JobItems.root_uid))
           @@ (<<"scratch">> :> Dir(JobItems.root_uid, TRUE))
           @@ (HomeDir :> Dir(JobItems.S_JOB_UID, FALSE))
           @@ (HomeFile :> File(JobItems.S_JOB_UID)) }

\* the contexts a job runs in: a batch job, a batch job that launches a
\* step, or a step launched without a batch script
JobShapes == { {"batch"}, {"batch", "step", "local"}, {"step", "local"} }

\* TMPDIR as the job environment carries it before the plugin runs
InheritedTmpdir == { NoPath, HomeDir }

\* the --tmpdir option of the job, if it was given
TmpdirOptions == { NULL, "/scratch" }

NewContext(present, inherited, optarg) ==
  [ phase |-> IF present THEN "new" ELSE "absent",
    base_tmpdir |-> IF optarg = NULL THEN NoPath ELSE _opt_tmpdir(optarg),
    tmpdir |-> inherited,
    made |-> {},
    init_rc |-> 0,
    exit_rc |-> 0 ]

InitScratch ==
  /\ is_cached = FALSE /\ cached_gid = 0 /\ cached_gname = ""
  /\ op = "idle" /\ req = IdleReq /\ res = IdleRes
  /\ fs \in InitialFilesystems
  /\ \E shape \in JobShapes, inherited \in InheritedTmpdir, optarg \in TmpdirOptions :
       /\ optarg # NULL => fs = BaseFs /\ inherited = NoPath
       /\ ctx = [c \in Contexts |-> NewContext(c \in shape, inherited, optarg)]
  /\ rmlog = <<>>

Phase(c) == ctx[c].phase

\* the host serializes the callbacks: the batch context brackets the step,
\* and srun's local context brackets the step it launches
MayInit(c) ==
  /\ Phase(c) = "new"
  /\ c = "batch" => Phase("step") \in {"absent", "new"} /\ Phase("local") \in {"absent", "new"}
  /\ c = "local" => Phase("batch") \in {"absent", "inited"}
  /\ c = "step" => Phase("local") = "inited"

MayExit(c) ==
  /\ Phase(c) = "inited"
  /\ c = "batch" => Phase("step") \in {"absent", "exited"} /\ Phase("local") \in {"absent", "exited"}
  /\ c = "local" => Phase("step") = "exited"

\* the context after its pre-launch callback; the callback returns 0 also
\* when _get_tmpdir failed, and TMPDIR then keeps its inherited value
Launched(cx, g) ==
  [cx EXCEPT !.phase = "inited",
             !.tmpdir = IF g.rc > 0 THEN g.path ELSE @,
             !.made = g.made,
             !.init_rc = 0]

\* slurm_spank_user_init, in slurmstepd as the job's user
UserInit(c) ==
  /\ spank_remote(c) /\ MayInit(c)
  /\ \E g \in {_get_tmpdir(fs, c, JobItems.S_JOB_UID, ctx[c].base_tmpdir)} :
       /\ fs' = g.fs
       /\ ctx' = [ctx EXCEPT ![c] = Launched(@, g)]
  /\ UNCHANGED <<rmlog, submitVars>>

\* slurm_spank_local_user_init, in srun
LocalUserInit(c) ==
  /\ ~spank_remote(c) /\ MayInit(c)
  /\ \E g \in {_get_tmpdir(fs, c, JobItems.S_JOB_UID, ctx[c].base_tmpdir)} :
       /\ fs' = g.fs
       /\ ctx' = [ctx EXCEPT ![c] = Launched(@, g)]
  /\ UNCHANGED <<rmlog, submitVars>>

\* what a task may put at a new path
TaskNodes ==
  { File(JobItems.S_JOB_UID), Dir(JobItems.S_JOB_UID, FALSE),
    Link(JobItems.S_JOB_UID, HomeDir), Link(JobItems.S_JOB_UID, HomeFile) }

TaskNames == {"a", "b"}

\* the entries the tasks have created so far
TaskEntries(f) == { p \in DOMAIN f : p[Len(p)] \in TaskNames }

\* a task of the context creates a file, a directory or a symbolic link in
\* its scratch tree
TaskWrite(c) ==
  /\ spank_remote(c) /\ Phase(c) = "inited"
  /\ IsUnder(ctx[c].tmpdir, JobDirOf(ctx[c].base_tmpdir))
  /\ Cardinality(TaskEntries(fs)) < MaxEntries
  /\ \E d \in DOMAIN fs, n \in TaskNames, node \in TaskNodes :
       /\ IsUnder(d, ctx[c].tmpdir)
       /\ fs[d].type = "dir" /\ fs[d].uid = JobItems.S_JOB_UID
       /\ (d \o <<n>>) \notin DOMAIN fs
       /\ fs' = Created(fs, d \o <<n>>, node)
  /\ UNCHANGED <<ctx, rmlog, submitVars>>

\* the entries another process may remove while the walk is under way
Raceable(f, tmpdir) == { p \in DOMAIN f : IsUnder(p, tmpdir) /\ f[p].type = "file" }

\* slurm_spank_exit
Exit(c) ==
  /\ MayExit(c)
  /\ \E rev \in BOOLEAN, raced \in {NoPath} \cup Raceable(fs, ctx[c].tmpdir) :
       \E r \in {slurm_spank_exit(fs, c, ctx[c].tmpdir, rev, raced)} :
         /\ fs' = r.fs
         /\ rmlog' = r.log
         /\ ctx' = [ctx EXCEPT ![c].phase = "exited", ![c].exit_rc = r.rc]
  /\ UNCHANGED submitVars

NextScratch ==
  \/ \E c \in Contexts : UserInit(c)
  \/ \E c \in Contexts : LocalUserInit(c)
  \/ \E c \in Contexts : TaskWrite(c)
  \/ \E c \in Contexts : Exit(c)

SpecScratch == InitScratch /\ [][NextScratch]_vars

-----------------------------------------------------------------------------
(* slurm_spank_task_init: the Grid Engine names of the job environment     *)

SlurmNames ==
  { "SLURM_CLUSTER_NAME", "SLURM_SUBMIT_DIR", "SLURM_SUBMIT_HOST", "SLURM_ARRAY_JOB_ID",
    "SLURM_ARRAY_TASK_ID", "SLURM_ARRAY_TASK_MIN", "SLURM_ARRAY_TASK_MAX",
    "SLURM_ARRAY_TASK_STEP", "SLURM_JOB_ID", "SLURM_JOB_NAME", "SLURM_JOB_PARTITION",
    "SLURM_JOB_NUM_NODES", "SLURM_JOB_CPUS_PER_NODE", "SLURM_STEP_NUM_NODES",
    "SLURM_CPUS_PER_TASK", "SLURM_STEP_NUM_TASKS", "SLURM_NTASKS" }

SgeNames ==
  { "SGE_CLUSTER_NAME", "SGE_O_WORKDIR", "SGE_O_HOST", "JOB_ID", "SGE_TASK_ID",
    "SGE_TASK_FIRST", "SGE_TASK_LAST", "SGE_TASK_STEPSIZE", "JOB_NAME", "QUEUE",
    "NQUEUES", "NHOSTS", "NSLOTS", "OMP_THREAD_LIMIT" }

EnvNames == SlurmNames \cup SgeNames

\* spank_getenv(...) == ESPANK_SUCCESS && *value
spank_getenv(env, name) == env[name] # NULL /\ env[name] # ""

\* spank_setenv(spank_ctxt, name, value, 1)
spank_setenv(env, name, value) == [env EXCEPT ![name] = value]

\* if ( spank_getenv(from) ... ) spank_setenv(to, value, 1)
CopyEnv(env, from, to) ==
  IF spank_getenv(env, from) THEN spank_setenv(env, to, env[from]) ELSE env

ArrayTaskEnv(env) ==
  CopyEnv(CopyEnv(CopyEnv(CopyEnv(env,
    "SLURM_ARRAY_TASK_ID", "SGE_TASK_ID"),
    "SLURM_ARRAY_TASK_MIN", "SGE_TASK_FIRST"),
    "SLURM_ARRAY_TASK_MAX", "SGE_TASK_LAST"),
    "SLURM_ARRAY_TASK_STEP", "SGE_TASK_STEPSIZE")

JobIdEnv(env) ==
  IF spank_getenv(env, "SLURM_ARRAY_JOB_ID")
    THEN ArrayTaskEnv(spank_setenv(env, "JOB_ID", env["SLURM_ARRAY_JOB_ID"]))
    ELSE CopyEnv(env, "SLURM_JOB_ID", "JOB_ID")

NhostsEnv(env) ==
  IF spank_getenv(env, "SLURM_JOB_NUM_NODES")
    THEN spank_setenv(env, "NHOSTS", env["SLURM_JOB_NUM_NODES"])
    ELSE spank_setenv(env, "NHOSTS", "1")

CountOnce(n, r) == n

\* n *= r
RepeatedCount(n, r) == n * r

NoParseError == 0 - 1

\* the while loop over SLURM_JOB_CPUS_PER_NODE, from position p with nslots
\* summed so far: [nslots, err], err the 0-based index slurm_error reports.
\* nslots is an unsigned int; the lists decoded here stay far below 2^32.
RECURSIVE DecodeCpus(_, _, _)
RECURSIVE AfterTerm(_, _, _)
AfterTerm(value, p, nslots) ==
  IF At(value, p) = NUL THEN [nslots |-> nslots, err |-> NoParseError]
  ELSE IF At(value, p) = "," THEN DecodeCpus(value, p + 1, nslots)
  ELSE [nslots |-> nslots, err |-> p - 1]

RepeatTerm(value, p, n, nslots) ==
  With(strtol(value, p, 10), LAMBDA r :
    IF r.v > 0 /\ r.e > p
      THEN AfterTerm(value, IF At(value, r.e) = ")" THEN r.e + 1 ELSE r.e,
                     nslots + RepeatedCount(n, r.v))
      ELSE [nslots |-> nslots, err |-> p - 1])

DecodeCpus(value, p, nslots) ==
  IF At(value, p) = NUL THEN [nslots |-> nslots, err |-> NoParseError]
  ELSE With(strtol(value, p, 10), LAMBDA n :
    IF n.v > 0 /\ n.e > p
      THEN IF At(value, n.e) = "(" /\ At(value, n.e + 1) = "x"
             THEN RepeatTerm(value, n.e + 2, n.v, nslots)
             ELSE AfterTerm(value, n.e, nslots + n.v)
      ELSE [nslots |-> nslots, err |-> p - 1])

\* the NSLOTS part of the callback: [env, err]
NslotsEnv(env) ==
  IF spank_getenv(env, "SLURM_JOB_CPUS_PER_NODE")
    THEN With(DecodeCpus(env["SLURM_JOB_CPUS_PER_NODE"], 1, 0), LAMBDA d :
           [ env |-> spank_setenv(env, "NSLOTS", IF d.nslots > 0 THEN FmtU(d.nslots) ELSE "1"),
             err |-> d.err ])
    ELSE [env |-> spank_setenv(env, "NSLOTS", "1"), err |-> NoParseError]

\* slurm_spank_task_init(spank_ctxt): [rc, env, err]
slurm_spank_task_init(c, should_add_sge_env, env) ==
  IF spank_remote(c) /\ should_add_sge_env
    THEN With(NslotsEnv(NhostsEnv(spank_setenv(CopyEnv(CopyEnv(JobIdEnv(
                CopyEnv(CopyEnv(CopyEnv(env,
                  "SLURM_CLUSTER_NAME", "SGE_CLUSTER_NAME"),
                  "SLURM_SUBMIT_DIR", "SGE_O_WORKDIR"),
                  "SLURM_SUBMIT_HOST", "SGE_O_HOST")),
                  "SLURM_JOB_NAME", "JOB_NAME"),
                  "SLURM_JOB_PARTITION", "QUEUE"),
                  "NQUEUES", "1"))), LAMBDA r :
           [rc |-> 0, env |-> r.env, err |-> r.err])
    ELSE [rc |-> 0, env |-> env, err |-> NoParseError]

-----------------------------------------------------------------------------
(* The definition of slurm_spank_task_init at the head of the file, which  *)
(* counts the slots from the task counts and exports OMP_THREAD_LIMIT      *)

\* NHOSTS: the step value if present, the overall job value otherwise
NhostsStepEnv(env) ==
  IF spank_getenv(env, "SLURM_STEP_NUM_NODES")
    THEN spank_setenv(env, "NHOSTS", env["SLURM_STEP_NUM_NODES"])
    ELSE NhostsEnv(env)

\* ncpus_per_task after the SLURM_CPUS_PER_TASK block
CpusPerTask(env) ==
  IF spank_getenv(env, "SLURM_CPUS_PER_TASK")
    THEN With(strtol(env["SLURM_CPUS_PER_TASK"], 1, 10).v, LAMBDA n : IF n <= 0 THEN 1 ELSE n)
    ELSE 1

\* the value the task-count condition leaves in `value`, NULL when neither
\* SLURM_STEP_NUM_TASKS nor SLURM_NTASKS is set and non-empty
TaskCountText(env) ==
  IF spank_getenv(env, "SLURM_STEP_NUM_TASKS") THEN env["SLURM_STEP_NUM_TASKS"]
  ELSE IF spank_getenv(env, "SLURM_NTASKS") THEN env["SLURM_NTASKS"]
  ELSE NULL

\* [ntasks, ncpus_per_task] before NSLOTS is formatted
TaskCounts(env) ==
  IF TaskCountText(env) = NULL
    THEN [ntasks |-> 1, ncpus_per_task |-> CpusPerTask(env)]
    ELSE With(strtol(TaskCountText(env), 1, 10).v, LAMBDA ntasks :
           IF ntasks <= 0
             THEN [ntasks |-> 1, ncpus_per_task |-> 1]
             ELSE [ntasks |-> ntasks, ncpus_per_task |-> CpusPerTask(env)])

\* NSLOTS and OMP_THREAD_LIMIT of the legacy branch
SlotsAndThreadsEnv(env, n) ==
  spank_setenv(spank_setenv(env, "NSLOTS", FmtU(n.ntasks * n.ncpus_per_task)),
               "OMP_THREAD_LIMIT", FmtU(n.ncpus_per_task))

\* slurm_spank_task_init(spank_ctxt), first definition: [rc, env, err]
slurm_spank_task_init_omp(c, should_add_sge_env, env) ==
  IF ~spank_remote(c) THEN [rc |-> 0, env |-> env, err |-> NoParseError]
  ELSE IF should_add_sge_env
    THEN With(NhostsStepEnv(spank_setenv(CopyEnv(CopyEnv(JobIdEnv(
                CopyEnv(CopyEnv(CopyEnv(env,
                  "SLURM_CLUSTER_NAME", "SGE_CLUSTER_NAME"),
                  "SLURM_SUBMIT_DIR", "SGE_O_WORKDIR"),
                  "SLURM_SUBMIT_HOST", "SGE_O_HOST")),
                  "SLURM_JOB_NAME", "JOB_NAME"),
                  "SLURM_JOB_PARTITION", "QUEUE"),
                  "NQUEUES", "1")), LAMBDA e :
           [rc |-> 0, env |-> SlotsAndThreadsEnv(e, TaskCounts(env)), err |-> NoParseError])
    ELSE [rc |-> 0,
          env |-> spank_setenv(env, "OMP_THREAD_LIMIT", FmtU(CpusPerTask(env))),
          err |-> NoParseError]

-----------------------------------------------------------------------------
(* Task launches: the environments slurmstepd hands to the callback        *)

MaxTerms == 3

\* a term of SLURM_JOB_CPUS_PER_NODE as slurmctld writes it
CpuTerm(count, repeat) ==
  [ text |-> IF repeat > 1 THEN FmtU(count) \o "(x" \o FmtU(repeat) \o ")" ELSE FmtU(count),
    slots |-> count * repeat,
    ok |-> TRUE ]

GoodTerms == { CpuTerm(1, 1), CpuTerm(4, 1), CpuTerm(2, 3), CpuTerm(1, 2), CpuTerm(16, 2) }

\* terms that are neither `count` nor `count(xrepeat)` with positive integers
BadTerms ==
  { [text |-> t, slots |-> 0, ok |-> FALSE] : t \in {"x", "0", "2(x)", "2(x0)", "2x", "-1", "2(x3)4"} }

CpuLists ==
  UNION { [1..n -> GoodTerms \cup BadTerms] : n \in 1..MaxTerms }

RECURSIVE JoinTerms(_)
JoinTerms(terms) ==
  IF Len(terms) = 1 THEN terms[1].text
  ELSE terms[1].text \o "," \o JoinTerms(Tail(terms))

RECURSIVE SumTerms(_)
SumTerms(terms) ==
  IF terms = <<>> THEN 0 ELSE terms[1].slots + SumTerms(Tail(terms))

\* the job environment before the callback: no Grid Engine name is set
BaseEnv ==
  [ n \in EnvNames |->
      IF n = "SLURM_JOB_ID" THEN "12345"
      ELSE IF n = "SLURM_JOB_NAME" THEN "myjob"
      ELSE IF n = "SLURM_JOB_PARTITION" THEN "standard"
      ELSE IF n = "SLURM_JOB_NUM_NODES" THEN "2"
      ELSE IF n = "SLURM_SUBMIT_DIR" THEN "/home/1001"
      ELSE NULL ]

ArrayEnv ==
  [BaseEnv EXCEPT !["SLURM_ARRAY_JOB_ID"] = "12340", !["SLURM_ARRAY_TASK_ID"] = "5",
                  !["SLURM_ARRAY_TASK_MIN"] = "1", !["SLURM_ARRAY_TASK_MAX"] = "9"]

BareEnv == [n \in EnvNames |-> NULL]

TaskInitInputs ==
  { [ c |-> "batch", should_add_sge_env |-> TRUE, terms |-> l,
      env |-> [BaseEnv EXCEPT !["SLURM_JOB_CPUS_PER_NODE"] = JoinTerms(l)] ] : l \in CpuLists }
  \cup
  { [ c |-> c, should_add_sge_env |-> a, terms |-> <<>>, env |-> e ] :
      c \in Contexts, a \in BOOLEAN,
      e \in { BaseEnv, ArrayEnv, BareEnv, [BaseEnv EXCEPT !["SLURM_JOB_CPUS_PER_NODE"] = ""],
               [BaseEnv EXCEPT !["SLURM_JOB_NAME"] = ""] } }

\* SLURM_CPUS_PER_TASK as the job environment may hold it, and the per-task
\* CPU count it stands for (1 when absent, empty or not a positive number)
CpusPerTaskCases ==
  { [text |-> NULL, cpus |-> 1], [text |-> "", cpus |-> 1], [text |-> "1", cpus |-> 1],
    [text |-> "4", cpus |-> 4], [text |-> "16", cpus |-> 16], [text |-> "0", cpus |-> 1],
    [text |-> "-2", cpus |-> 1], [text |-> "x", cpus |-> 1] }

TaskCountChoices == { NULL, "", "2", "0", "x" }

ThreadLimitInputs ==
  { [ c |-> c, should_add_sge_env |-> a, cpus |-> k.cpus,
      env |-> [BaseEnv EXCEPT !["SLURM_CPUS_PER_TASK"] = k.text,
                              !["SLURM_NTASKS"] = n,
                              !["SLURM_STEP_NUM_TASKS"] = s,
                              !["SLURM_STEP_NUM_NODES"] = h] ] :
      c \in Contexts, a \in BOOLEAN, k \in CpusPerTaskCases, n \in TaskCountChoices,
      s \in {NULL, "3", "0"}, h \in {NULL, "1"} }

InitTask ==
  /\ is_cached = FALSE /\ cached_gid = 0 /\ cached_gname = ""
  /\ op = "idle"
  /\ req = IdleReq
  /\ res = IdleRes
  /\ fs = <<>> /\ ctx = <<>> /\ rmlog = <<>>

\* slurmstepd calls slurm_spank_task_init before it executes a task
TaskInit ==
  /\ op = "idle"
  /\ \E in \in TaskInitInputs :
       \E out \in {slurm_spank_task_init(in.c, in.should_add_sge_env, in.env)} :
         /\ op' = "task_init"
         /\ req' = in
         /\ res' = out
  /\ UNCHANGED <<is_cached, cached_gid, cached_gname>>
  /\ UNCHANGED scratchVars

\* the same call when the plugin is built from the first definition
TaskInitOmp ==
  /\ op = "idle"
  /\ \E in \in ThreadLimitInputs :
       \E out \in {slurm_spank_task_init_omp(in.c, in.should_add_sge_env, in.env)} :
         /\ op' = "task_init_omp"
         /\ req' = in
         /\ res' = out
  /\ UNCHANGED <<is_cached, cached_gid, cached_gname>>
  /\ UNCHANGED scratchVars

NextTask == TaskInit \/ TaskInitOmp \/ Return

SpecTask == InitTask /\ [][NextTask]_vars

-----------------------------------------------------------------------------
(* Properties of the admission callbacks (under SpecSubmit) and of the     *)
(* scratch lifecycle (under SpecScratch)                                   *)

\* the fields of the descriptor that are strings: an empty or blank string
\* is an unset field
TextFields ==
  {"std_out", "std_err", "std_in", "name", "comment", "mail_user", "partition", "qos", "account"}

\* C1: first-writer-wins.  Every descriptor field that holds a non-default
\* value when job_submit is called holds the same value when job_submit
\* returns success.
C1_FirstWriterWins ==
  (op = "job_submit" /\ res.rc = SLURM_SUCCESS) =>
    \A f \in GuardedFields :
      ( /\ req.jd[f] # DefaultJobDesc[f]
        /\ f \in TextFields => job_submit_is_nonempty_str(req.jd[f]) )
      => res.jd[f] = req.jd[f]

\* C2: scratch directory lifecycle.  Once the job-exit stage has run for
\* every context of the job and no removal failed, no directory that the
\* pre-launch stage created as the job's user exists any more; a job that
\* ran only in step contexts included.
C2_ScratchRemovedAfterExit ==
  ( /\ \A c \in Contexts : Phase(c) \in {"absent", "exited"}
    /\ \E c \in Contexts : Phase(c) = "exited"
    /\ \A c \in Contexts : ctx[c].exit_rc = 0
    /\ \A c \in Contexts : \A d \in ctx[c].made :
         d \in DOMAIN fs => fs[d].uid = JobItems.S_JOB_UID )
  => \A c \in Contexts : \A d \in ctx[c].made : d \notin DOMAIN fs

\* C3: ownership check.  A job-exit stage whose scratch directory is owned
\* by another user than the job's removes nothing and returns failure.
C3_ForeignDirectoryRefused ==
  [][ \A c \in Contexts :
        ( /\ Phase(c) = "inited" /\ ctx'[c].phase = "exited"
          /\ ctx[c].tmpdir \in DOMAIN fs
          /\ fs[ctx[c].tmpdir].type = "dir"
          /\ fs[ctx[c].tmpdir].uid # JobItems.S_JOB_UID )
        => ( fs' = fs /\ rmlog' = <<>> /\ ctx'[c].exit_rc = -1 ) ]_vars

C3_Witness ==
  \E c \in Contexts :
    /\ Phase(c) = "exited" /\ ctx[c].exit_rc = -1
    /\ ctx[c].tmpdir = JobDir
    /\ JobDir \in DOMAIN fs /\ fs[JobDir].uid = JobItems.other_uid
    /\ (JobDir \o <<"x">>) \in DOMAIN fs

\* C4: containment.  A job-exit stage leaves everything outside the tree at
\* its scratch directory as it was, calls remove() only on paths of that
\* tree, and unlinks a symbolic link of the tree as a link.
C4_RemovalContained ==
  [][ \A c \in Contexts :
        ( Phase(c) = "inited" /\ ctx'[c].phase = "exited" ) =>
          /\ \A p \in DOMAIN fs :
               ~IsUnder(p, ctx[c].tmpdir) => (p \in DOMAIN fs' /\ fs'[p] = fs[p])
          /\ \A i \in 1..Len(rmlog') : IsUnder(rmlog'[i].path, ctx[c].tmpdir)
          /\ \A p \in DOMAIN fs :
               ( rmlog' # <<>> /\ IsUnder(p, ctx[c].tmpdir) /\ fs[p].type = "link" )
               => /\ p \notin DOMAIN fs'
                  /\ \E i \in 1..Len(rmlog') :
                       rmlog'[i] = [path |-> p, info |-> "FTS_SL", ok |-> TRUE] ]_vars

C4_Witness ==
  /\ \E i \in 1..Len(rmlog) : rmlog[i].info = "FTS_SL" /\ rmlog[i].ok
  /\ \E i \in 1..Len(rmlog) : rmlog[i].info = "FTS_DP" /\ rmlog[i].path = JobDir /\ rmlog[i].ok
  /\ HomeDir \in DOMAIN fs /\ HomeFile \in DOMAIN fs
  /\ fs[HomeFile] = File(JobItems.S_JOB_UID)

\* C5: post-order.  In the remove() calls of a job-exit stage every entry
\* of a directory comes before the directory, and the scratch directory
\* itself is the last call.
C5_PostOrder ==
  [][ \A c \in Contexts :
        ( Phase(c) = "inited" /\ ctx'[c].phase = "exited" ) =>
          /\ \A i \in 1..Len(rmlog') :
               \A q \in Entries(fs, rmlog'[i].path) :
                 \E j \in 1..(i - 1) : rmlog'[j].path = q
          /\ rmlog' # <<>> => rmlog'[Len(rmlog')].path = ctx[c].tmpdir ]_vars

C5_Witness ==
  /\ Len(rmlog) >= 3
  /\ rmlog[Len(rmlog)].path = JobDir
  /\ \E i \in 1..(Len(rmlog) - 1) :
       /\ rmlog[i].info = "FTS_DP" /\ rmlog[i].ok
       /\ \E j \in 1..(i - 1) : Parent(rmlog[j].path) = rmlog[i].path

\* the checks of job_submit that come before the account resolution pass
\* the request
PassesEarlierChecks(jd) ==
  StepMemory(StepExclusive(StepReserved(StepScript(
    [jd |-> jd, rc |-> SLURM_SUCCESS, err |-> NoErr, cache |-> NoCache])))).rc = SLURM_SUCCESS

\* C6: account resolution.  With no account on the request: (a) for a gid
\* at or above the base gid, success implies the account is the name of the
\* system group of that gid, and a gid without a group is rejected; (b) for
\* a gid below the base and a uid other than 0 the submission is rejected,
\* with the workgroup message when it is this check that rejects it.
C6_AccountResolution ==
  ( op = "job_submit" /\ req.jd.account \in {NULL, "", " "} ) =>
    /\ req.jd.group_id >= UDHPC_BASE_GID =>
         /\ res.rc = SLURM_SUCCESS =>
              \E g \in SystemGroups : g.gid = req.jd.group_id /\ g.name = res.jd.account
         /\ (~ \E g \in SystemGroups : g.gid = req.jd.group_id) => res.rc = SLURM_ERROR
    /\ ( req.jd.group_id < UDHPC_BASE_GID /\ req.submit_uid # 0 ) =>
         /\ res.rc = SLURM_ERROR
         /\ PassesEarlierChecks(req.jd) =>
              res.err.text = "Please choose a workgroup before submitting a job"

C6_Witness ==
  /\ op = "job_submit" /\ req.jd.account = NULL
  /\ req.jd.group_id = 1001 /\ res.rc = SLURM_SUCCESS /\ res.jd.account = "it_css"

\* C7 as stated: job_modify returns success only if the request's account
\* is unset or is the same as the job's account.
C7_AccountUnchanged ==
  ( op = "job_modify" /\ res.rc = SLURM_SUCCESS ) =>
    ( req.jd.account = NULL \/ req.jd.account = req.job_ptr.account )

\* C7: job_modify returns success exactly when the request's account is
\* unset or names the job's account, letter case disregarded.
C7_AccountUnchangedUpToCase ==
  op = "job_modify" =>
    ( res.rc = SLURM_SUCCESS <=>
        \/ req.jd.account = NULL
        \/ /\ req.job_ptr.account # NULL
           /\ ToLowerStr(req.jd.account) = ToLowerStr(req.job_ptr.account) )

C7_Witness ==
  /\ op = "job_modify" /\ res.rc = SLURM_SUCCESS
  /\ req.jd.account = "IT_CSS" /\ req.job_ptr.account = "it_css"

\* C8: with no SLURM_NTASKS or SLURM_CPUS_PER_TASK in the environment, the
\* directive "-pe threads n" leaves cpus_per_task = n, num_tasks = 1 and
\* min_cpus = n, for n up to the largest 16-bit value.
C8_PeThreads ==
  op = "job_submit" =>
    \A n \in SlotCounts :
      ( /\ req.jd.script = Shebang \o PeThreadsLine(n) \o "echo hello\n"
        /\ ~HasCpuCounts(req.jd.environment) )
      => ( res.jd.cpus_per_task = n /\ res.jd.num_tasks = 1 /\ res.jd.min_cpus = n )

C8_Witness ==
  /\ op = "job_submit" /\ res.rc = SLURM_SUCCESS
  /\ req.jd.script = Shebang \o PeThreadsLine(65535) \o "echo hello\n"
  /\ req.jd.cpus_per_task = NO_VAL16
  /\ res.jd.cpus_per_task = 65535 /\ res.jd.num_tasks = 1 /\ res.jd.min_cpus = 65535

\* C9: with no SLURM_NTASKS or SLURM_CPUS_PER_TASK in the environment, the
\* directive "-pe mpi n-m" (or generic-mpi) leaves num_tasks in n..m,
\* min_cpus = n and cpus_per_task = 1.
C9_PeMpiRange ==
  op = "job_submit" =>
    \A name \in {"mpi", "generic-mpi"}, r \in SlotRanges :
      ( /\ req.jd.script = Shebang \o PeMpiLine(name, r) \o "echo hello\n"
        /\ ~HasCpuCounts(req.jd.environment) )
      => ( /\ res.jd.num_tasks \in r[1]..r[2]
           /\ res.jd.min_cpus = r[1]
           /\ res.jd.cpus_per_task = 1 )

\* C10: after a successful -pe directive the three variables it appended
\* to the environment agree with the fields it set: SLURM_NTASKS and
\* SLURM_NPROCS with num_tasks, SLURM_CPUS_PER_TASK with cpus_per_task.
C10_ExportsAgree ==
  ( /\ op = "job_submit" /\ res.rc = SLURM_SUCCESS
    /\ Len(res.jd.environment) = Len(req.jd.environment) + 3 )
  => \A k \in 1..Len(res.jd.environment) :
       /\ StartsWith(res.jd.environment[k], "SLURM_NTASKS=") =>
            res.jd.environment[k] = "SLURM_NTASKS=" \o FmtU(res.jd.num_tasks)
       /\ StartsWith(res.jd.environment[k], "SLURM_NPROCS=") =>
            res.jd.environment[k] = "SLURM_NPROCS=" \o FmtU(res.jd.num_tasks)
       /\ StartsWith(res.jd.environment[k], "SLURM_CPUS_PER_TASK=") =>
            res.jd.environment[k] = "SLURM_CPUS_PER_TASK=" \o FmtU(res.jd.cpus_per_task)

\* C11: with the time limit unset, "-l h_rt=H:M:S" with decimal fields sets
\* the time limit to ceil((3600*H + 60*M + S) / 60) minutes, and "-l h_rt=S"
\* to ceil(S / 60) minutes.
C11_DurationConversion ==
  op = "job_submit" =>
    \A c \in TimeCases :
      ( /\ req.jd.script = Shebang \o TimeLine(c.text) \o "echo hello\n"
        /\ req.jd.time_limit = NO_VAL )
      => /\ res.rc = SLURM_SUCCESS
         /\ res.jd.time_limit = (3600 * c.H + 60 * c.M + c.S + 59) \div 60

\* C12: with the memory limit unset, "-l m_mem_free=<v><unit>" sets the
\* memory limit, per cpu, to max(configured minimum, ceil(bytes / 2^20)) MiB.
C12_MemoryConversion ==
  op = "job_submit" =>
    \A c \in MemoryCases :
      ( /\ req.jd.script = Shebang \o MemoryLine(c.text) \o "echo hello\n"
        /\ req.jd.pn_min_memory = NO_VAL64 )
      => /\ res.rc = SLURM_SUCCESS
         /\ res.jd.pn_min_memory =
              [per_cpu |-> TRUE,
               mb |-> IF c.mib < UDHPC_MIN_MEM_MB THEN UDHPC_MIN_MEM_MB ELSE c.mib]

\* the path ends in ".out"
EndsInOut(path) == Len(path) >= 4 /\ SubSeq(path, Len(path) - 3, Len(path)) = ".out"

\* the stderr path the post-scan rule derives from the stdout path
DerivedStderr(std_out) ==
  IF std_out = NULL THEN "slurm-%j.err"
  ELSE IF EndsInOut(std_out) THEN SubSeq(std_out, 1, Len(std_out) - 4) \o ".err"
  ELSE std_out \o ".err"

\* C13: post-scan stderr rule.  When the last -j directive is "-j n" and
\* stderr was set neither before the call nor by -e, stderr after a
\* successful scan is stdout with a trailing ".out" replaced by ".err", or
\* stdout with ".err" appended, or the default template when stdout is
\* unset; in every other case stderr is what the call or -e set.
C13_PostScanStderr ==
  ( op = "job_submit" /\ res.rc = SLURM_SUCCESS ) =>
    \A c \in JoinCases :
      req.jd.script = Shebang \o c.lines \o "echo hello\n" =>
        IF c.join_n /\ req.jd.std_err = NULL /\ c.err = NULL
          THEN res.jd.std_err = DerivedStderr(res.jd.std_out)
          ELSE res.jd.std_err = (IF c.err # NULL THEN c.err ELSE req.jd.std_err)

-----------------------------------------------------------------------------
(* Properties of the task-launch callback (under SpecTask)                 *)

LegacyDecoded ==
  /\ op = "task_init"
  /\ spank_remote(req.c) /\ req.should_add_sge_env
  /\ req.terms # <<>>

C15_SlotCountFallback ==
  (LegacyDecoded /\ \E i \in DOMAIN req.terms : ~req.terms[i].ok)
    => res.env["NSLOTS"] = "1"

-----------------------------------------------------------------------------
(* Properties of the scratch directory's creation (under SpecScratch)      *)

\* the pre-launch callback of context c runs in this step
PreLaunch(c) == ctx[c].phase = "new" /\ ctx'[c].phase = "inited"

\* {base}/{jobId} or {base}/{jobId}/{stepId}, base the override or /tmp
ScratchPath(c) ==
  (IF ctx[c].base_tmpdir = NoPath THEN <<"tmp">> ELSE ctx[c].base_tmpdir)
  \o <<"12345">> \o (IF c = "batch" THEN <<>> ELSE <<"3">>)

\* p is missing in f and the job's user may create it, or it is a directory
MissingOrDir(f, p) ==
  \/ S_ISDIR(stat(f, p))
  \/ /\ stat(f, p) = NoNode /\ p \notin DOMAIN f
     /\ \/ stat(f, Parent(p)) = NoNode
        \/ /\ S_ISDIR(stat(f, Parent(p)))
           /\ (stat(f, Parent(p)).uid = JobItems.S_JOB_UID \/ stat(f, Parent(p)).open)

\* nothing stands in the way of the scratch directory of context c
Creatable(f, c) ==
  /\ S_ISDIR(stat(f, Parent(SubSeq(ScratchPath(c), 1, 2))))
  /\ \A n \in 2..Len(ScratchPath(c)) : MissingOrDir(f, SubSeq(ScratchPath(c), 1, n))

C17_CreationFailureSignalled ==
  [][\A c \in Contexts : (PreLaunch(c) /\ ~Creatable(fs, c)) => ctx'[c].init_rc # 0]_vars

-----------------------------------------------------------------------------
(* Properties of the removal under concurrent deletion (under SpecScratch) *)

\* the job-exit callback of context c runs in this step, and a file the walk
\* had seen was deleted by another process before remove() reached it
RacedExit(c) ==
  /\ ctx[c].phase = "inited" /\ ctx'[c].phase = "exited"
  /\ \E i \in 1..Len(rmlog') :
       /\ rmlog'[i].info = "FTS_F" /\ ~rmlog'[i].ok
       /\ rmlog'[i].path \in DOMAIN fs

\* C18: when another process deletes an entry between the walk seeing it and
\* its removal, the job-exit stage still removes the rest of the scratch tree
\* and reports success
C18_ConcurrentDisappearance ==
  [][\A c \in Contexts : RacedExit(c) =>
       /\ \A p \in DOMAIN fs' : ~IsUnder(p, ctx[c].tmpdir)
       /\ ctx'[c].exit_rc = 0]_vars

-----------------------------------------------------------------------------
(* Properties of the partition list (under SpecSubmit)                     *)

\* the elements of a comma-separated list
RECURSIVE ListElements(_)
ListElements(list) ==
  IF strcspn(list, 1, {","}) = Len(list) THEN <<list>>
  ELSE <<SubSeq(list, 1, strcspn(list, 1, {","}))>>
       \o ListElements(From(list, strcspn(list, 1, {","}) + 2))

\* the name of the group the submission was made under
SubmitGroup(gid) == (CHOOSE g \in SystemGroups : g.gid = gid).name

HasPlaceholder(partition) ==
  /\ partition # NULL
  /\ \E i \in DOMAIN ListElements(partition) : ListElements(partition)[i] = "_workgroup_"

\* C19: after a successful job_submit on a partition list that has the
\* placeholder _workgroup_ as an element, every occurrence is replaced by the
\* resolved group name and the other elements are unchanged, in the same order
C19_PlaceholderSubstitution ==
  ( op = "job_submit" /\ HasPlaceholder(req.jd.partition) /\ res.rc = SLURM_SUCCESS ) =>
    ListElements(res.jd.partition) =
      [ i \in DOMAIN ListElements(req.jd.partition) |->
          IF ListElements(req.jd.partition)[i] = "_workgroup_"
            THEN SubmitGroup(req.jd.group_id)
            ELSE ListElements(req.jd.partition)[i] ]

\* every element is the placeholder or the name of a system group
AllWorkgroup(partition) ==
  \A i \in DOMAIN ListElements(partition) :
    \/ ListElements(partition)[i] = "_workgroup_"
    \/ \E g \in SystemGroups : g.name = ListElements(partition)[i]

QosUnset(jd) == jd.qos \in {NULL, ""}

\* C20: a successful job_submit called with QOS unset and a non-empty
\* partition list leaves QOS = priority-access when every element is the
\* placeholder or an existing system group, and does not set that QOS when
\* some element is neither
C20_PriorityAccessDefault ==
  ( /\ op = "job_submit" /\ res.rc = SLURM_SUCCESS
    /\ QosUnset(req.jd) /\ job_submit_is_nonempty_str(req.jd.partition) ) =>
      (res.jd.qos = "priority-access") = AllWorkgroup(req.jd.partition)

-----------------------------------------------------------------------------
(* Properties of the GPU request (under SpecSubmit)                        *)

\* C21: for a generic-resource request of comma-separated tokens
\* gpu[:type][:count], a successful job_submit sets the binding-enforcement
\* flag and sockets-per-node = the sum of the counts (1 for a token without
\* a count, any type name skipped) when that sum is > 0, and neither when
\* it is 0
C21_GpuTotal ==
  \A c \in GresCases :
    ( /\ op = "job_submit" /\ req.jd.tres_per_node = c.text
      /\ req.jd.sockets_per_node = NO_VAL16 /\ req.jd.bitflags = {}
      /\ res.rc = SLURM_SUCCESS ) =>
        /\ c.total > 0 => /\ "GRES_ENFORCE_BIND" \in res.jd.bitflags
                          /\ res.jd.sockets_per_node = c.total
        /\ c.total = 0 => /\ "GRES_ENFORCE_BIND" \notin res.jd.bitflags
                          /\ res.jd.sockets_per_node = NO_VAL16

-----------------------------------------------------------------------------
(* Properties of the reserved partition (under SpecSubmit)                 *)

HasReserved(partition) ==
  /\ partition # NULL
  /\ \E i \in DOMAIN ListElements(partition) : ListElements(partition)[i] = "reserved"

NoReservation(jd) == jd.reservation \in {NULL, "", " "}

ReservedMessage == "Jobs in the reserved partition require a reservation"

\* C22: job_submit rejects every submission whose partition list, given on
\* the descriptor or set by a -q directive, has an element named reserved
\* while no non-empty reservation is attached, and the rejected descriptor
\* carries no change of a policy step
C22_ReservedPartition ==
  /\ ( op = "job_submit" /\ HasReserved(req.jd.partition) /\ NoReservation(req.jd) ) =>
       /\ res.rc = SLURM_ERROR
       /\ req.jd.script = NULL => res.jd = req.jd /\ res.err.text = ReservedMessage
  /\ \A c \in QueueCases :
       ( /\ op = "job_submit" /\ req.jd.partition = NULL /\ NoReservation(req.jd)
         /\ req.jd.script = Shebang \o c.line \o "echo hello\n"
         /\ HasReserved(c.partition) ) =>
           /\ res.rc = SLURM_ERROR
           /\ res.err.text = ReservedMessage
           /\ res.jd = [req.jd EXCEPT !.partition = c.partition]

\* a -q directive put reserved into the list after another queue, no
\* reservation was attached, and the submission was rejected
C22_Witness ==
  /\ op = "job_submit" /\ req.jd.partition = NULL /\ req.jd.reservation = NULL
  /\ req.jd.script = Shebang \o "#$ -q standard,reserved\n" \o "echo hello\n"
  /\ res.rc = SLURM_ERROR /\ res.err.text = ReservedMessage
  /\ res.jd.partition = "standard,reserved"

-----------------------------------------------------------------------------
(* Properties of the scan boundary (under SpecSubmit)                      *)

\* what job_submit returns for the descriptor of the request with another script
WithScript(script) ==
  job_submit([req.jd EXCEPT !.script = script], req.submit_uid, NoCache)

\* the result is the one of the script given, the script field aside
SameAsFor(script) ==
  /\ res.rc = WithScript(script).rc
  /\ res.jd = [WithScript(script).jd EXCEPT !.script = req.jd.script]

\* C23: a #$ line after the first line that does not start with '#', and any
\* #$ line of a script that does not begin with "#!", changes no descriptor
\* field: the result is the one of the script without those lines (of no
\* script at all when it does not begin with "#!"), policy pass included
C23_ScanBoundary ==
  \A c \in BoundaryCases :
    ( op = "job_submit" /\ req.jd.script = c.head \o c.tail ) =>
      /\ c.head \in BlockHeads => SameAsFor(c.head)
      /\ c.head \in PlainHeads =>
           /\ SameAsFor(NULL)
           /\ res.rc = SLURM_SUCCESS
           /\ res.jd.name = NULL /\ res.jd.partition = NULL /\ res.jd.time_limit = NO_VAL
           /\ res.jd.account = "it_css"
           /\ res.jd.pn_min_memory = [per_cpu |-> TRUE, mb |-> UDHPC_MIN_MEM_MB]

\* the directive before the empty line was applied, the five after it were not
C23_Witness ==
  /\ op = "job_submit"
  /\ req.jd.script = Shebang \o "#$ -N early\n" \o "\n"
       \o "#$ -N late\n#$ -q reserved\n#$ -l h_rt=60\n#$ -o late.out\n#$ -j n\n"
  /\ res.rc = SLURM_SUCCESS
  /\ res.jd.name = "early" /\ res.jd.partition = NULL /\ res.jd.std_out = NULL
  /\ res.jd.time_limit = NO_VAL /\ res.jd.account = "it_css"

-----------------------------------------------------------------------------
(* Properties of the parse errors (under SpecSubmit)                       *)

\* C24: when directive interpretation rejects a submission for a bad -pe
\* count, range or name, an unknown mail character, a bad -j argument, an
\* unterminated quote or an invalid memory, time or boolean value, the error
\* message carries the 1-based number of the line of the offending directive,
\* the shebang line being line 1
C24_ErrorLineNumber ==
  \A c \in ErrorCases :
    ( /\ op = "job_submit"
      /\ req.jd = [DefaultJobDesc EXCEPT !.script = c.script, !.group_id = 1001]
      /\ res.rc = SLURM_ERROR ) =>
      /\ res.err.text # ""
      /\ res.err.line = c.line

\* an unterminated quote on the fifth line was reported with line 5
C24_Witness ==
  /\ op = "job_submit"
  /\ req.jd.mail_type = {} /\ req.jd.pn_min_memory = NO_VAL64
  /\ req.jd.script = Shebang \o "#$ -cwd\n# plain comment\n#$ -M user@udel.edu\n"
       \o "#$ -l mf='4G\n" \o "#$ -m x\n" \o "echo hello\n"
  /\ res.rc = SLURM_ERROR
  /\ res.err = Err("unterminated quoted string", 5)

-----------------------------------------------------------------------------
(* Properties of the descriptor after a rejection (under SpecSubmit)       *)

\* C25 as stated: when job_submit returns an error, every field of the
\* descriptor has the value it had before the call
C25_NoPartialMutation ==
  ( op = "job_submit" /\ res.rc = SLURM_ERROR ) => res.jd = req.jd

\* the fields a policy step may have set before a later step rejects
PolicyFields == { "pn_min_memory", "account", "qos", "partition" }

\* C25 amended: when job_submit returns an error it returns a message, and
\* the descriptor is not rolled back: after a rejected directive it carries
\* exactly what the valid directives on the lines before it set, and after a
\* policy rejection of a job without script only fields that policy steps
\* set may differ
C25_ChangesBeforeFailureKept ==
  /\ ( op = "job_submit" /\ res.rc = SLURM_ERROR ) => res.err.text # ""
  /\ \A c \in ErrorCases :
       ( /\ op = "job_submit"
         /\ req.jd = [DefaultJobDesc EXCEPT !.script = c.script, !.group_id = 1001]
         /\ res.rc = SLURM_ERROR ) =>
           res.jd = [req.jd EXCEPT !.name = c.leading.name,
                                   !.std_out = c.leading.std_out,
                                   !.mail_user = c.leading.mail_user]
  /\ ( op = "job_submit" /\ res.rc = SLURM_ERROR /\ req.jd.script = NULL ) =>
       \A f \in DOMAIN req.jd \ PolicyFields : res.jd[f] = req.jd[f]

\* a directive on line 3 was rejected and the job name set on line 2 stayed
C25_Witness ==
  /\ op = "job_submit"
  /\ req.jd = [DefaultJobDesc EXCEPT !.script = Shebang \o "#$ -N myjob\n" \o "#$ -j maybe\n"
                                                \o "echo hello\n",
                                     !.group_id = 1001]
  /\ res.rc = SLURM_ERROR /\ res.err.line = 3
  /\ res.jd.name = "myjob" /\ res.jd # req.jd

-----------------------------------------------------------------------------
(* Properties of the legacy job name (under SpecTask)                      *)

\* C26: in legacy-environment mode task initialization always defines
\* JOB_NAME: the value of SLURM_JOB_NAME when that is set and non-empty,
\* and STDIN when SLURM_JOB_NAME is unset or empty
C26_JobNameDefault ==
  ( op = "task_init" /\ spank_remote(req.c) /\ req.should_add_sge_env ) =>
    res.env["JOB_NAME"] = IF req.env["SLURM_JOB_NAME"] \notin {NULL, ""}
                            THEN req.env["SLURM_JOB_NAME"]
                            ELSE "STDIN"

-----------------------------------------------------------------------------
(* Properties of the thread limit (under SpecTask)                         *)

\* C27: task initialization in a remote context always sets
\* OMP_THREAD_LIMIT to the per-task CPU count SLURM_CPUS_PER_TASK, or to 1
\* when that is absent, empty or not a positive number, and the value is
\* the same whether legacy-environment mode is enabled or disabled
C27_ThreadLimit ==
  ( op = "task_init_omp" /\ spank_remote(req.c) ) =>
    /\ res.env["OMP_THREAD_LIMIT"] = FmtU(req.cpus)
    /\ res.env["OMP_THREAD_LIMIT"] =
         slurm_spank_task_init_omp(req.c, ~req.should_add_sge_env, req.env).env["OMP_THREAD_LIMIT"]

-----------------------------------------------------------------------------
(* Properties of the -l clause list (under SpecSubmit)                     *)

\* C28: in a -l directive of several comma-separated clauses every
\* name=value clause whose whole name is a memory, run-time or exclusive
\* name is applied and every other clause is ignored without error,
\* whatever clauses come before it: the job is accepted with the time limit
\* and memory that the recognised clauses ask for
C28_ClauseIndependence ==
  \A c \in ClauseCases :
    ( /\ op = "job_submit"
      /\ req.jd = [DefaultJobDesc EXCEPT !.script = Shebang \o c.line \o "echo hello\n",
                                         !.group_id = 1001] ) =>
        /\ res.rc = SLURM_SUCCESS
        /\ res.jd.time_limit = c.minutes
        /\ res.jd.pn_min_memory = [per_cpu |-> TRUE, mb |-> c.mb]

-----------------------------------------------------------------------------
(* Properties of the hardware-partition QOS (under SpecSubmit)             *)

\* C29: when QOS is unset and the account is set (given or resolved), an
\* accepted job has QOS = the account name if and only if some element of
\* the partition list is written <kind>-<digits><unit>B with kind compute,
\* gpu or nvme, at least one digit and exactly one unit letter of P, T, G, M
\* before the B; also when every element is a workgroup partition
C29_HardwareQos ==
  \A c \in HardwareCases :
    ( /\ op = "job_submit" /\ res.rc = SLURM_SUCCESS
      /\ req.jd.partition = c.partition
      /\ QosUnset(req.jd) /\ job_submit_is_nonempty_str(res.jd.account) ) =>
        (res.jd.qos = res.jd.account) = c.hardware

-----------------------------------------------------------------------------
(* Properties of the job-exit removal target (under SpecScratch)           *)

\* the pre-launch callback of context c computed and exported its scratch
\* path: TMPDIR holds that path and not a value the job inherited
Exported(c) == ctx[c].tmpdir = ScratchPath(c)

\* C30: the job-exit stage removes only entries of the directory that the
\* pre-launch stage of the same job computed and exported; when the
\* pre-launch stage exported no path, job exit removes nothing, in
\* particular not a directory named by an inherited TMPDIR
C30_ExitRemovesOnlyExported ==
  [][ \A c \in Contexts :
        ( ctx[c].phase = "inited" /\ ctx'[c].phase = "exited" ) =>
          /\ \A p \in DOMAIN fs :
               p \notin DOMAIN fs' => ( Exported(c) /\ IsUnder(p, ScratchPath(c)) )
          /\ ~Exported(c) => ( fs' = fs /\ rmlog' = <<>> ) ]_vars

====
